---- MODULE Spec2Model ----
(***************************************************************************)
(* Normalization and incremental series-merge engine of the sentiment      *)
(* collector: webendpoint_json_data.py, transfer_ocr_to_csv.py, main.py.   *)
(*                                                                         *)
(* Numbers are exact rationals <<numerator, denominator>> (denominator >   *)
(* 0, lowest terms); the code computes in binary floating point, so the    *)
(* model says nothing about sub-ulp effects or NaN/inf inputs.             *)
(* Strings that the code compares, measures or sorts (date keys) are       *)
(* sequences of character codes; a CSV value cell is its parsed content.   *)
(***************************************************************************)
EXTENDS Integers, Sequences, FiniteSets, TLC

VARIABLES file, before, op, call, batch

vars == <<file, before, op, call, batch>>

(***************************************************************************)
(* Bounds of the model.                                                    *)
(***************************************************************************)
MaxRows == 3
MaxIn == 2
MaxRawQ == 440
MaxRuns == 2
MaxDay == 2
MaxFaultRows == 1
MaxBackfill == 3
MaxCalls == 5
MaxClock == 6
MaxRetries == 3
MaxFetches == 2
MaxItems == 3
MaxScrapes == 2
MaxX == 3
MaxNew == 2
MaxMerges == 2

(***************************************************************************)
(* Rational arithmetic.                                                    *)
(***************************************************************************)
Abs(n) == IF n < 0 THEN -n ELSE n

RECURSIVE GCD(_, _)
GCD(a, b) == IF b = 0 THEN a ELSE GCD(b, a % b)

Rat(n, d) ==
    LET s == IF d < 0 THEN -1 ELSE 1
        g == GCD(Abs(n), Abs(d))
    IN  <<(s * n) \div g, (s * d) \div g>>

RInt(n) == <<n, 1>>

RAdd(a, b) == Rat(a[1] * b[2] + b[1] * a[2], a[2] * b[2])
RSub(a, b) == Rat(a[1] * b[2] - b[1] * a[2], a[2] * b[2])

RMul(a, b) ==
    LET g1 == GCD(Abs(a[1]), b[2])
        g2 == GCD(Abs(b[1]), a[2])
    IN  <<(a[1] \div g1) * (b[1] \div g2), (a[2] \div g2) * (b[2] \div g1)>>

\* b # 0; the callers model the ZeroDivisionError themselves
RDiv(a, b) == RMul(a, Rat(b[2], b[1]))

RLess(a, b) == a[1] * b[2] < b[1] * a[2]
RMin(a, b) == IF RLess(b, a) THEN b ELSE a
RMax(a, b) == IF RLess(a, b) THEN b ELSE a
RZero(a) == a[1] = 0

\* nearest integer to n/d (d > 0), ties to even
RoundHalfEven(n, d) ==
    LET f == (2 * n + d) \div (2 * d)
    IN  IF (2 * n + d) % (2 * d) = 0 /\ f % 2 # 0 THEN f - 1 ELSE f

\* f"{x:.1f}" : the printed decimal, as a number of hundredths
Format1(q) == 10 * RoundHalfEven(10 * q[1], q[2])

\* round(x, 1)
Round1(q) == Rat(RoundHalfEven(10 * q[1], q[2]), 10)

\* the rational a printed cell of h hundredths parses to
OfHundredths(h) == Rat(h, 100)

(***************************************************************************)
(* Normalization functions (webendpoint_json_data.py).                     *)
(***************************************************************************)
MAWindow == 365

\* clamp with the min(..., max_val) left out
ClampNoUpper(value, min_val, max_val) == RMax(min_val, value)

clamp(value, min_val, max_val) == RMax(min_val, RMin(max_val, value))

Clamp50(value) == clamp(value, RInt(-50), RInt(50))

Returned(q) == [raised |-> FALSE, val |-> q]
Raised == [raised |-> TRUE, val |-> RInt(0)]

(***************************************************************************)
(* A history list is kept run-length encoded: a sequence of runs           *)
(* <<y, count>> (count >= 1) stands for count consecutive entries with     *)
(* d['y'] = y.                                                             *)
(***************************************************************************)
RECURSIVE HLen(_)
HLen(h) == IF h = <<>> THEN 0 ELSE h[Len(h)][2] + HLen(SubSeq(h, 1, Len(h) - 1))

\* sum(d['y'] for d in h[-n:])
RECURSIVE HSumLast(_, _)
HSumLast(h, n) ==
    IF h = <<>> \/ n <= 0 THEN RInt(0)
    ELSE LET r == h[Len(h)]
             k == IF r[2] < n THEN r[2] ELSE n
         IN  RAdd(RMul(RInt(k), r[1]), HSumLast(SubSeq(h, 1, Len(h) - 1), n - k))

\* len(h[-n:])
HLenLast(h, n) == IF HLen(h) < n THEN HLen(h) ELSE n

\* the demand-ratio rule dividing by 2.0 instead of the domain width 1.5
JunkBondWrong(value) ==
    Clamp50(RSub(RMul(RDiv(RSub(value, Rat(1, 2)), RInt(2)), RInt(100)), RInt(50)))

JunkBond(value) ==
    Clamp50(RSub(RMul(RDiv(RSub(value, Rat(1, 2)), Rat(3, 2)), RInt(100)), RInt(50)))

\* the oscillator rule with the baseline always taken over the whole history
MomentumAllHistory(value, historical_data) ==
    IF HLen(historical_data) = 0 THEN Returned(RInt(0))
    ELSE LET ma == RDiv(HSumLast(historical_data, HLen(historical_data)),
                        RInt(HLen(historical_data)))
         IN  IF RZero(ma)
             THEN (IF HLen(historical_data) >= MAWindow THEN Raised
                   ELSE Returned(RInt(0)))
             ELSE Returned(Clamp50(RMul(RMul(RDiv(RSub(value, ma), ma),
                                             RInt(100)), RInt(5))))

\* the oscillator rule with the deviation scaled by 10 instead of 5
MomentumScale10(value, historical_data) ==
    IF HLen(historical_data) = 0 THEN Returned(RInt(0))
    ELSE LET ma == RDiv(HSumLast(historical_data, MAWindow),
                        RInt(HLenLast(historical_data, MAWindow)))
         IN  IF RZero(ma)
             THEN (IF HLen(historical_data) >= MAWindow THEN Raised
                   ELSE Returned(RInt(0)))
             ELSE Returned(Clamp50(RMul(RMul(RDiv(RSub(value, ma), ma),
                                             RInt(100)), RInt(10))))

Momentum(value, historical_data) ==
    IF HLen(historical_data) >= MAWindow
    THEN LET ma365 == RDiv(HSumLast(historical_data, MAWindow),
                           RInt(HLenLast(historical_data, MAWindow)))
         IN  IF RZero(ma365) THEN Raised
             ELSE Returned(Clamp50(RMul(RMul(RDiv(RSub(value, ma365), ma365),
                                             RInt(100)), RInt(5))))
    ELSE IF HLen(historical_data) > 0
         THEN LET ma == RDiv(HSumLast(historical_data, HLen(historical_data)),
                             RInt(HLen(historical_data)))
              IN  IF ~RZero(ma)
                  THEN Returned(Clamp50(RMul(RMul(RDiv(RSub(value, ma), ma),
                                                  RInt(100)), RInt(5))))
                  ELSE Returned(RInt(0))
         ELSE Returned(RInt(0))

normalize_cnn_component(component_name, value, historical_data) ==
    IF component_name = "put_call_options"
    THEN Returned(Clamp50(RSub(RMul(RDiv(value, RInt(2)), RInt(100)), RInt(50))))
    ELSE IF component_name = "junk_bond_demand"
    THEN Returned(JunkBond(value))
    ELSE IF component_name \in {"safe_haven_demand", "stock_price_strength"}
    THEN Returned(Clamp50(RMul(value, Rat(5, 2))))
    ELSE IF component_name = "stock_price_breadth"
    THEN Returned(Clamp50(RSub(RMul(RDiv(RSub(value, RInt(500)), RInt(1500)),
                                    RInt(100)), RInt(50))))
    ELSE IF component_name \in {"market_volatility_vix", "market_volatility_vix_50"}
    THEN Returned(Clamp50(RSub(value, RInt(50))))
    ELSE IF component_name = "market_momentum_sp125"
    THEN Momentum(value, historical_data)
    ELSE Returned(Clamp50(RSub(value, RInt(50))))

\* value - 50 without the clamp
normalize_aaii_sentiment_unclamped(value) == RSub(value, RInt(50))

normalize_aaii_sentiment(value) == Clamp50(RSub(value, RInt(50)))

\* the composite with a factor that keeps the sign of 1 - neutral/100
calculate_aaii_composite_signed(bullish, bearish, neutral) ==
    LET conviction == RSub(RInt(1), RDiv(neutral, RInt(100)))
        squared == RMul(conviction, conviction)
    IN  Clamp50(RMul(RSub(bullish, bearish),
                     IF RLess(conviction, RInt(0)) THEN RSub(RInt(0), squared)
                     ELSE squared))

\* the composite with the conviction factor not squared
calculate_aaii_composite_linear(bullish, bearish, neutral) ==
    Clamp50(RMul(RSub(bullish, bearish), RSub(RInt(1), RDiv(neutral, RInt(100)))))

calculate_aaii_composite(bullish, bearish, neutral) ==
    LET fear_greed == RSub(bullish, bearish)
        conviction == RSub(RInt(1), RDiv(neutral, RInt(100)))
        conviction_squared == RMul(conviction, conviction)
        composite == RMul(fear_greed, conviction_squared)
    IN  Clamp50(composite)

\* transfer_ocr_to_csv.py: round(long_pct - 50, 1), long_pct an int
convert_sentiment(long_pct) == Round1(RInt(long_pct - 50))


(***************************************************************************)
(* Strings: sequences of character codes, compared as Python compares str. *)
(***************************************************************************)
Digit(n) == 48 + n

RECURSIVE StrLess(_, _)
StrLess(a, b) ==
    IF b = <<>> THEN FALSE
    ELSE IF a = <<>> THEN TRUE
    ELSE IF a[1] # b[1] THEN a[1] < b[1]
    ELSE StrLess(Tail(a), Tail(b))

\* date of a day number counted from 1970-01-01 (proleptic Gregorian)
CivilFromDays(z) ==
    LET zz == z + 719468
        era == zz \div 146097
        doe == zz - era * 146097
        yoe == (doe - doe \div 1460 + doe \div 36524 - doe \div 146096) \div 365
        doy == doe - (365 * yoe + yoe \div 4 - yoe \div 100)
        mp == (5 * doy + 2) \div 153
        d == doy - (153 * mp + 2) \div 5 + 1
        m == IF mp < 10 THEN mp + 3 ELSE mp - 9
        y == yoe + era * 400 + (IF m <= 2 THEN 1 ELSE 0)
    IN  <<y, m, d>>

\* datetime.fromtimestamp(seconds), clock of the host taken as UTC
FromTimestamp(seconds) == CivilFromDays(seconds \div 86400)

\* strftime('%Y%m%dT') for a year of four digits
DateKey(date) ==
    <<Digit(date[1] \div 1000), Digit((date[1] \div 100) % 10),
      Digit((date[1] \div 10) % 10), Digit(date[1] % 10),
      Digit(date[2] \div 10), Digit(date[2] % 10),
      Digit(date[3] \div 10), Digit(date[3] % 10), 84>>

(***************************************************************************)
(* Series file: a sequence of CSV lines.  A line is                        *)
(*   k   : its first field,                                                *)
(*   c   : the fields after the first (a cell is numeric text of v         *)
(*         hundredths printed with dp decimals, or non-numeric text),      *)
(*   bad : csv.reader raises csv.Error on reaching the line.               *)
(***************************************************************************)
NumCell(h, dp) == [num |-> TRUE, v |-> h, dp |-> dp]
TextCell == [num |-> FALSE, v |-> 0, dp |-> 0]
Zero == NumCell(0, 0)

\* the cell f"{x:.1f}" prints
Fmt(q) == NumCell(Format1(q), 1)

Line(k, c) == [k |-> k, c |-> c, bad |-> FALSE]

\* len(row) of the parsed line
RowLen(row) == 1 + Len(row.c)

\* a row with the close column left at "0"
OhlcWrong(timestamp, value) == Line(timestamp, <<value, value, value, Zero, Zero>>)

\* [timestamp, value, value, value, value, "0"]
Ohlc(timestamp, value) == Line(timestamp, <<value, value, value, value, Zero>>)

KeysOf(rows) == {rows[i].k : i \in 1..Len(rows)}

RECURSIVE InsertSorted(_, _)
InsertSorted(sorted, row) ==
    IF sorted = <<>> THEN <<row>>
    ELSE IF StrLess(row.k, sorted[Len(sorted)].k)
         THEN Append(InsertSorted(SubSeq(sorted, 1, Len(sorted) - 1), row),
                     sorted[Len(sorted)])
         ELSE Append(sorted, row)

\* the rows as they come, sorted() left out
Unsorted(rows) == rows

\* sorted(rows, key=lambda x: x[0]) : stable
RECURSIVE SortByKey(_)
SortByKey(rows) ==
    IF rows = <<>> THEN <<>>
    ELSE InsertSorted(SortByKey(SubSeq(rows, 1, Len(rows) - 1)), rows[Len(rows)])

\* dict[k] = row : a present key keeps its place, a new key goes last
DictPut(d, row) ==
    IF row.k \in KeysOf(d)
    THEN [i \in 1..Len(d) |-> IF d[i].k = row.k THEN row ELSE d[i]]
    ELSE Append(d, row)

DictGet(d, k) == d[CHOOSE i \in 1..Len(d) : d[i].k = k]

AnyBad(rows) == \E i \in 1..Len(rows) : rows[i].bad

(***************************************************************************)
(* Persist: open(csv_file, 'w') and one writerow per row.                  *)
(*   fk = "none"    the write completes                                    *)
(*   fk = "open"    open() raises, nothing is touched                      *)
(*   fk = "partial" open() has truncated the file and the write raises     *)
(*                  after k rows reached the disk                         *)
(***************************************************************************)
Persist(old, rows, fk, k) ==
    IF fk = "none" THEN rows
    ELSE IF fk = "open" THEN old
    ELSE SubSeq(rows, 1, IF k < Len(rows) THEN k ELSE Len(rows))

(***************************************************************************)
(* webendpoint_json_data.py : append_to_csv                                *)
(***************************************************************************)
\* the read loop without "timestamp not in seen_timestamps"
ValidExistingNoDedup(rows, n) ==
    SelectSeq(SubSeq(rows, 1, n), LAMBDA row : RowLen(row) >= 6 /\ Len(row.k) = 9)

\* valid_existing_data after reading rows[1..n]
RECURSIVE ValidExisting(_, _)
ValidExisting(rows, n) ==
    IF n = 0 THEN <<>>
    ELSE LET acc == ValidExisting(rows, n - 1)
             row == rows[n]
         IN  IF RowLen(row) >= 6 /\ Len(row.k) = 9 /\ row.k \notin KeysOf(acc)
             THEN Append(acc, row) ELSE acc

\* the loop over new_data without "timestamp not in seen_timestamps"
AddNewNoSeen(valid, new_data, n) ==
    valid \o [i \in 1..n |-> Ohlc(new_data[i][1], new_data[i][2])]

\* the loop "for timestamp, value in new_data" over new_data[1..n]
RECURSIVE AddNew(_, _, _)
AddNew(valid, new_data, n) ==
    IF n = 0 THEN valid
    ELSE LET acc == AddNew(valid, new_data, n - 1)
             p == new_data[n]
         IN  IF p[1] \notin KeysOf(acc) /\ Len(p[1]) = 9
             THEN Append(acc, Ohlc(p[1], p[2])) ELSE acc

\* what append_to_csv hands to the writer
MergedRows(old, new_data) ==
    SortByKey(AddNew(ValidExisting(old, Len(old)), new_data, Len(new_data)))

\* [raised, content of the file afterwards]
append_to_csv(old, new_data, fk, k) ==
    IF AnyBad(old) THEN [raised |-> TRUE, content |-> old]
    ELSE [raised |-> fk # "none",
          content |-> Persist(old, MergedRows(old, new_data), fk, k)]

get_last_timestamp_from_csv(rows) ==
    IF rows = <<>> THEN <<>> ELSE rows[Len(rows)].k


(***************************************************************************)
(* Raw observations handed over by the source adapters.  One shape serves  *)
(* every source:                                                           *)
(*   day, tod : the calendar day (counted from 2024-01-01) and the second  *)
(*              of that day of the observation's timestamp                 *)
(*   y        : the raw value (CNN y, BTC value, OCR long_pct, JSON        *)
(*              sentiment_percent, survey bullish)                         *)
(*   y2, y3   : survey bearish and neutral                                 *)
(*   ok       : FALSE when the value is missing (CNN y is None) or the     *)
(*              timestamp string does not parse (main.py, OCR)             *)
(***************************************************************************)
Entry(day, tod, y, y2, y3, ok) ==
    [day |-> day, tod |-> tod, y |-> y, y2 |-> y2, y3 |-> y3, ok |-> ok]

\* seconds since the epoch of the observation
EpochSeconds(e) == (19723 + e.day) * 86400 + e.tod

\* the date a strptime of the observation's timestamp string yields
ParsedDate(e) == CivilFromDays(19723 + e.day)

\* data[:n-1]: the history without the entry being normalized
PrefixExclusive(data, n) ==
    IF n <= 1 THEN <<>> ELSE [j \in 1..(n - 1) |-> <<data[j].y, 1>>]

\* data[:n] as a history list
RECURSIVE Prefix(_, _)
Prefix(data, n) ==
    IF n = 0 THEN <<>> ELSE Append(Prefix(data, n - 1), <<data[n].y, 1>>)

(***************************************************************************)
(* webendpoint_json_data.py : process_historical_to_csv                    *)
(* new_data after the loop has run over data[1..n]; raised when the        *)
(* normalizer raised (ZeroDivisionError, or a None in the history it sums).*)
(***************************************************************************)
RECURSIVE HistoricalNewData(_, _, _)
HistoricalNewData(data, component_name, n) ==
    IF n = 0 THEN [raised |-> FALSE, new_data |-> <<>>]
    ELSE LET acc == HistoricalNewData(data, component_name, n - 1)
             entry == data[n]
             noneInHistory == \E j \in 1..n : ~data[j].ok
             r == IF component_name = "None" THEN Returned(entry.y)
                  ELSE IF component_name = "market_momentum_sp125" /\ noneInHistory
                       THEN Raised
                       ELSE normalize_cnn_component(component_name, entry.y,
                                                    Prefix(data, n))
         IN  IF acc.raised THEN acc
             ELSE IF ~entry.ok THEN acc
             ELSE IF r.raised THEN [raised |-> TRUE, new_data |-> acc.new_data]
             ELSE [raised |-> FALSE,
                   new_data |-> Append(acc.new_data,
                        <<DateKey(FromTimestamp(EpochSeconds(entry))), Fmt(r.val)>>)]

\* result of a handler: the file afterwards, the points it derived from its
\* input, whether it raised (or reported failure), whether it reached the write
Outcome(content, points, raised, wrote) ==
    [content |-> content, points |-> points, raised |-> raised, wrote |-> wrote]

process_historical_to_csv(old, data, component_name, fk, k) ==
    LET h == HistoricalNewData(data, component_name, Len(data))
        a == append_to_csv(old, h.new_data, fk, k)
    IN  IF h.raised THEN Outcome(old, h.new_data, TRUE, FALSE)
        ELSE IF h.new_data = <<>> THEN Outcome(old, <<>>, FALSE, FALSE)
        ELSE Outcome(a.content, h.new_data, a.raised, ~AnyBad(old))

(***************************************************************************)
(* parse_cnn_json / parse_alternative_me_json                              *)
(***************************************************************************)
Reversed(s) == [i \in 1..Len(s) |-> s[Len(s) + 1 - i]]

\* every entry of the JSON as a point, in the order the loop visits them
JsonPoints(data) ==
    LET r == Reversed(data)
    IN  [i \in 1..Len(r) |->
            <<DateKey(FromTimestamp(EpochSeconds(r[i]))), Fmt(r[i].y)>>]

\* the filter on last_timestamp left out
NewerThanAlways(last_timestamp, formatted_timestamp) == TRUE

NewerThan(last_timestamp, formatted_timestamp) ==
    last_timestamp = <<>> \/ StrLess(last_timestamp, formatted_timestamp)

\* new_data : the entries the loop keeps
JsonNewData(old, data, valueCheck) ==
    LET last_timestamp == get_last_timestamp_from_csv(old)
        r == Reversed(data)
        keep == {i \in 1..Len(r) :
                    /\ NewerThan(last_timestamp,
                                 DateKey(FromTimestamp(EpochSeconds(r[i]))))
                    /\ (valueCheck => ~RLess(RInt(100), r[i].y))}
        pts == JsonPoints(data)
        RECURSIVE Pick(_)
        Pick(n) == IF n = 0 THEN <<>>
                   ELSE IF n \in keep THEN Append(Pick(n - 1), pts[n])
                   ELSE Pick(n - 1)
    IN  Pick(Len(r))

ParseJson(old, data, valueCheck, fk, k) ==
    LET new_data == JsonNewData(old, data, valueCheck)
        a == append_to_csv(old, new_data, fk, k)
    IN  IF new_data = <<>> THEN Outcome(old, JsonPoints(data), FALSE, FALSE)
        ELSE Outcome(a.content, JsonPoints(data), a.raised, ~AnyBad(old))

parse_cnn_json(old, data, fk, k) == ParseJson(old, data, TRUE, fk, k)

parse_alternative_me_json(old, data, fk, k) == ParseJson(old, data, FALSE, fk, k)

(***************************************************************************)
(* process_aaii_data, for one of its four series files                     *)
(***************************************************************************)
AaiiValue(series, e) ==
    IF series = "BULLISH" THEN normalize_aaii_sentiment(e.y)
    ELSE IF series = "BEARISH" THEN normalize_aaii_sentiment(e.y2)
    ELSE IF series = "NEUTRAL" THEN normalize_aaii_sentiment(e.y3)
    ELSE calculate_aaii_composite(e.y, e.y2, e.y3)

AaiiPoints(series, entries) ==
    [i \in 1..Len(entries) |->
        <<DateKey(ParsedDate(entries[i])), Fmt(AaiiValue(series, entries[i]))>>]

process_aaii_data(old, series, entries, fk, k) ==
    LET a == append_to_csv(old, AaiiPoints(series, entries), fk, k)
    IN  Outcome(a.content, AaiiPoints(series, entries), a.raised, ~AnyBad(old))


(***************************************************************************)
(* transfer_ocr_to_csv.py                                                  *)
(***************************************************************************)
\* read_ocr_data, one instrument: {date_key: long_pct} after rows[1..n];
\* a dict entry is kept as a line <<date_key, <<long_pct>>>>
RECURSIVE read_ocr_data(_, _)
read_ocr_data(rows, n) ==
    IF n = 0 THEN <<>>
    ELSE LET acc == read_ocr_data(rows, n - 1)
         IN  IF ~rows[n].ok THEN acc
             ELSE DictPut(acc, Line(DateKey(ParsedDate(rows[n])), <<rows[n].y>>))

\* read_existing_csv after the reader has yielded rows[1..n]
RECURSIVE ExistingDict(_, _)
ExistingDict(rows, n) ==
    IF n = 0 THEN <<>>
    ELSE LET acc == ExistingDict(rows, n - 1)
         IN  IF RowLen(rows[n]) >= 6 THEN DictPut(acc, rows[n]) ELSE acc

read_existing_csv(rows) == IF AnyBad(rows) THEN <<>> ELSE ExistingDict(rows, Len(rows))

\* the merge loop of process_ocr_data over date_data[1..n]
RECURSIVE OcrMerge(_, _, _)
OcrMerge(existing_data, date_data, n) ==
    IF n = 0 THEN existing_data
    ELSE LET acc == OcrMerge(existing_data, date_data, n - 1)
             date_key == date_data[n].k
             sentiment == convert_sentiment(date_data[n].c[1][1])
         IN  IF date_key \notin KeysOf(acc)
             THEN DictPut(acc, Ohlc(date_key, Fmt(sentiment)))
             ELSE acc

OcrPoints(date_data) ==
    [i \in 1..Len(date_data) |->
        <<date_data[i].k, Fmt(convert_sentiment(date_data[i].c[1][1]))>>]

\* the body of the loop of process_ocr_data for one allowed instrument
process_ocr_data(old, rows, fk, k) ==
    LET date_data == read_ocr_data(rows, Len(rows))
        existing_data == read_existing_csv(old)
        merged == OcrMerge(existing_data, date_data, Len(date_data))
        new_records == Len(merged) - Len(existing_data)
    IN  IF new_records > 0
        THEN Outcome(Persist(old, SortByKey(merged), fk, k), OcrPoints(date_data),
                     fk # "none", TRUE)
        ELSE Outcome(old, OcrPoints(date_data), FALSE, FALSE)

(***************************************************************************)
(* main.py : SentimentProcessor                                            *)
(***************************************************************************)
\* parse_json, one pair: {formatted_timestamp: sentiment} after entries[1..n]
RECURSIVE parse_json(_, _)
parse_json(entries, n) ==
    IF n = 0 THEN <<>>
    ELSE LET acc == parse_json(entries, n - 1)
             e == entries[n]
             ts == DateKey(ParsedDate(e))
         IN  IF ~e.ok THEN acc
             ELSE IF ts \in KeysOf(acc)
             THEN DictPut(acc, Line(ts,
                    <<Round1(RDiv(RAdd(DictGet(acc, ts).c[1], e.y), RInt(2)))>>))
             ELSE DictPut(acc, Line(ts, <<Round1(e.y)>>))

\* the row the reader stops at: csv.Error, or float(row[1]) raising
MainStops(row) == row.bad \/ (RowLen(row) >= 6 /\ ~row.c[1].num)

\* existing_data after the read loop of write_csv
RECURSIVE MainExisting(_, _)
MainExisting(rows, n) ==
    IF n = 0 THEN <<>>
    ELSE LET acc == MainExisting(rows, n - 1)
         IN  IF \E j \in 1..n : MainStops(rows[j]) THEN acc
             ELSE IF RowLen(rows[n]) >= 6
                  THEN DictPut(acc, Line(rows[n].k, SubSeq(rows[n].c, 1, 5)))
                  ELSE acc

\* merged_data after the loop over processed_data[1..n]
RECURSIVE MainMerge(_, _, _)
MainMerge(existing_data, processed_data, n) ==
    IF n = 0 THEN existing_data
    ELSE LET acc == MainMerge(existing_data, processed_data, n - 1)
             p == processed_data[n]
         IN  IF p.k \notin KeysOf(acc)
             THEN DictPut(acc, Ohlc(p.k, Fmt(p.c[1])))
             ELSE acc

\* the row written for a (timestamp, values) item: the first value goes
\* through float() and f"{:.1f}", the others are copied
MainRow(r) ==
    Line(r.k, <<Fmt(OfHundredths(r.c[1].v)), r.c[2], r.c[3], r.c[4], r.c[5]>>)

MainPoints(processed_data) ==
    [i \in 1..Len(processed_data) |->
        <<processed_data[i].k, Fmt(processed_data[i].c[1])>>]

\* process_pair and write_csv for one pair of data_by_pair
write_csv(old, entries, fk, k) ==
    LET processed_data == SortByKey(parse_json(entries, Len(entries)))
        existing_data == MainExisting(old, Len(old))
        merged_data == MainMerge(existing_data, processed_data, Len(processed_data))
        sorted_data == SortByKey(merged_data)
        out == [i \in 1..Len(sorted_data) |-> MainRow(sorted_data[i])]
    IN  Outcome(Persist(old, out, fk, k), MainPoints(processed_data),
                fk # "none", TRUE)


(***************************************************************************)
(* The series file under observation and the runs of the program on it.    *)
(*   file   : its lines                                                    *)
(*   before : its lines when the last handler began                        *)
(*   op     : the last handler run: its name, argument and raw input, the  *)
(*            points it derived, whether it raised / reached the write,    *)
(*            how the disk behaved (fk), whether it was a second run on    *)
(*            the same input and whether the first run changed the file    *)
(*   call   : a call of a normalization function, with its result          *)
(*   batch  : a loop over the instruments of one run, with their files      *)
(***************************************************************************)
Days == 0..MaxDay

K(day) == DateKey(CivilFromDays(19723 + day))

Pct(n) == NumCell(n, 1)

\* lines a series file may hold before the program first touches it:
\* rows of the program's own shape, a row with more decimals, a header
\* line, a short date key, a short row, a line the csv reader rejects
InitLines ==
    {Ohlc(K(0), Pct(-2000)), Ohlc(K(1), Pct(-2000)), Ohlc(K(0), NumCell(504, 2)),
     Line(<<100, 97, 116, 101>>, <<TextCell, TextCell, TextCell, TextCell, TextCell>>),
     Ohlc(<<50, 48, 50, 52>>, Pct(520)),
     Line(K(1), <<Pct(520)>>),
     [k |-> K(1), c |-> <<Pct(520)>>, bad |-> TRUE]}

SeqsUpTo(S, n) == UNION {[1..m -> S] : m \in 0..n}

NoOp == [name |-> "init", arg |-> "", raw |-> <<>>, points |-> <<>>,
         raised |-> FALSE, wrote |-> FALSE, fk |-> "none", repeat |-> FALSE,
         first_changed |-> FALSE]

NoCall == [fn |-> "none", comp |-> "", args |-> <<>>, hist |-> <<>>,
           done |-> FALSE, raised |-> FALSE, out |-> RInt(0)]

\* no batch is running
NoBatch == [loop |-> "none"]

Init ==
    /\ file \in SeqsUpTo(InitLines, MaxRows)
    /\ before = file
    /\ op = NoOp
    /\ call = NoCall
    /\ batch = NoBatch

\* a handler runs on fresh source data, or a second time on the source data of
\* the run before it
Ready(name) == op.name = "init" \/ (op.name = name /\ ~op.repeat)

SourceData(name, fresh) == IF op.name = name THEN {op.raw} ELSE fresh

SourceArg(name, fresh) == IF op.name = name THEN {op.arg} ELSE fresh

Apply(name, arg, raw, fk, out) ==
    /\ file' = out.content
    /\ before' = file
    /\ op' = [name |-> name, arg |-> arg, raw |-> raw, points |-> out.points,
              raised |-> out.raised, wrote |-> out.wrote, fk |-> fk,
              repeat |-> op.name = name,
              first_changed |-> op.name = name /\ file # before]
    /\ UNCHANGED <<call, batch>>

Obs(day, tod, y) == Entry(day, tod, y, RInt(0), RInt(0), TRUE)

Unusable == Entry(0, 0, RInt(0), RInt(0), RInt(0), FALSE)

HistoricalInputs ==
    {Obs(d, 0, RInt(IF d = 1 THEN 150 ELSE 1)) : d \in Days} \cup {Unusable}

JsonInputs == {Obs(d, 0, RInt(IF d = 1 THEN 150 ELSE 75)) : d \in Days}

AaiiInputs ==
    {Entry(0, 0, RInt(75), RInt(25), RInt(0), TRUE),
     Entry(MaxDay, 0, RInt(160), RInt(-30), RInt(130), TRUE)}

OcrInputs ==
    {Obs(d, 0, RInt(30)) : d \in Days} \cup {Obs(0, 3600, RInt(150)), Unusable}

MainInputs ==
    {Obs(d, 0, RInt(-20)) : d \in Days} \cup {Obs(0, 3600, RInt(99)), Unusable}

ProcessHistoricalToCsv(fk, k) ==
    /\ Ready("process_historical_to_csv")
    /\ \E component_name \in SourceArg("process_historical_to_csv",
              {"None", "put_call_options", "market_momentum_sp125"}),
          data \in SourceData("process_historical_to_csv",
              SeqsUpTo(HistoricalInputs, MaxIn)) :
        \E out \in {process_historical_to_csv(file, data, component_name, fk, k)} :
            Apply("process_historical_to_csv", component_name, data, fk, out)

ParseCnnJson(fk, k) ==
    /\ Ready("parse_cnn_json")
    /\ \E data \in SourceData("parse_cnn_json", SeqsUpTo(JsonInputs, MaxIn)) :
        \E out \in {parse_cnn_json(file, data, fk, k)} :
            Apply("parse_cnn_json", "", data, fk, out)

ParseAlternativeMeJson(fk, k) ==
    /\ Ready("parse_alternative_me_json")
    /\ \E data \in SourceData("parse_alternative_me_json",
              SeqsUpTo(JsonInputs, MaxIn)) :
        \E out \in {parse_alternative_me_json(file, data, fk, k)} :
            Apply("parse_alternative_me_json", "", data, fk, out)

ProcessAaiiData(fk, k) ==
    /\ Ready("process_aaii_data")
    /\ \E series \in SourceArg("process_aaii_data",
              {"BULLISH", "BEARISH", "NEUTRAL", "COMPOSITE"}),
          entries \in SourceData("process_aaii_data",
              SeqsUpTo(AaiiInputs, MaxIn)) :
        \E out \in {process_aaii_data(file, series, entries, fk, k)} :
            Apply("process_aaii_data", series, entries, fk, out)

\* "if not ocr_data: return 0" : the loop body runs for instruments read
ProcessOcrData(fk, k) ==
    /\ Ready("process_ocr_data")
    /\ \E rows \in SourceData("process_ocr_data", SeqsUpTo(OcrInputs, MaxIn)) :
        /\ \E i \in 1..Len(rows) : rows[i].ok
        /\ \E out \in {process_ocr_data(file, rows, fk, k)} :
            Apply("process_ocr_data", "", rows, fk, out)

\* main() calls write_csv for every pair parse_json has put in data_by_pair
WriteCsv(fk, k) ==
    /\ Ready("write_csv")
    /\ \E entries \in SourceData("write_csv", SeqsUpTo(MainInputs, MaxIn)) :
        /\ entries # <<>>
        /\ \E out \in {write_csv(file, entries, fk, k)} :
            Apply("write_csv", "", entries, fk, out)

\* the file a run has persisted is loaded and persisted again with no new
\* point, by the loader and the writer of the pipeline that persisted it:
\* append_to_csv with an empty new_data, read_existing_csv and write_csv of
\* transfer_ocr_to_csv.py, SentimentProcessor.write_csv for a pair without data
ReloadAndPersist(old, name, fk, k) ==
    IF name = "process_ocr_data"
    THEN Outcome(Persist(old, SortByKey(read_existing_csv(old)), fk, k), <<>>,
                 fk # "none", TRUE)
    ELSE IF name = "write_csv" THEN write_csv(old, <<>>, fk, k)
    ELSE LET a == append_to_csv(old, <<>>, fk, k)
         IN  Outcome(a.content, <<>>, a.raised, ~AnyBad(old))

Reload(fk, k) ==
    /\ op.name \notin {"init", "reload"}
    /\ op.wrote /\ ~op.raised
    /\ \E out \in {ReloadAndPersist(file, op.name, fk, k)} :
        Apply("reload", op.name, <<>>, fk, out)

\* the run is over; the next one starts from the file as it is now (as long
\* as the file is one of those the exploration starts from)
Exit ==
    /\ op.name # "init"
    /\ file \in SeqsUpTo(InitLines, MaxRows)
    /\ before' = file
    /\ op' = NoOp
    /\ UNCHANGED <<file, call, batch>>

Handlers(fk, k) ==
    \/ ProcessHistoricalToCsv(fk, k)
    \/ ParseCnnJson(fk, k)
    \/ ParseAlternativeMeJson(fk, k)
    \/ ProcessAaiiData(fk, k)
    \/ ProcessOcrData(fk, k)
    \/ WriteCsv(fk, k)
    \/ Reload(fk, k)

\* the disk works
Next == Handlers("none", 0) \/ Exit

Spec == Init /\ [][Next]_vars

\* the disk may fail during Persist
InitFault ==
    /\ file \in SeqsUpTo(InitLines, MaxFaultRows)
    /\ before = file
    /\ op = NoOp
    /\ call = NoCall
    /\ batch = NoBatch

NextFault ==
    \/ \E fk \in {"none", "open", "partial"}, k \in 0..(MaxFaultRows + MaxIn - 1) :
            Handlers(fk, k)
    \/ Exit

SpecFault == InitFault /\ [][NextFault]_vars

(***************************************************************************)
(* The normalization functions on their own: a call is drawn, then made.   *)
(***************************************************************************)
Components ==
    {"put_call_options", "junk_bond_demand", "safe_haven_demand",
     "stock_price_strength", "stock_price_breadth", "market_volatility_vix",
     "market_volatility_vix_50", "market_momentum_sp125", "unrecognized"}

RawValues ==
    {Rat(n, 4) : n \in (-MaxRawQ)..MaxRawQ}
    \cup {RInt(n) : n \in {-3000, 500, 1250, 2000, 3000}}

HistoryRuns ==
    {<<RInt(y), c>> : y \in {-100, 0, 100, 110}, c \in {1, MAWindow - 1, MAWindow}}

Percentages == {RInt(n) : n \in {-10, 0, 25, 50, 75, 100, 130}}

Pending(fn, comp, args, hist) ==
    [fn |-> fn, comp |-> comp, args |-> args, hist |-> hist,
     done |-> FALSE, raised |-> FALSE, out |-> RInt(0)]

Calls ==
    {Pending("normalize_cnn_component", c, <<v>>, h) :
        c \in Components, v \in RawValues, h \in {<<>>, <<<<RInt(100), MAWindow>>>>}}
    \cup {Pending("normalize_cnn_component", "market_momentum_sp125", <<RInt(v)>>, h) :
        v \in {-100, 0, 90, 100, 105, 110, 200}, h \in SeqsUpTo(HistoryRuns, MaxRuns)}
    \cup {Pending("normalize_aaii_sentiment", "", <<v>>, <<>>) : v \in RawValues}
    \cup {Pending("calculate_aaii_composite", "", <<b, s, n>>, <<>>) :
        b \in Percentages, s \in Percentages, n \in Percentages}
    \cup {Pending("convert_sentiment", "", <<RInt(p)>>, <<>>) :
        p \in (-MaxRawQ)..MaxRawQ}

InitNorm ==
    /\ file = <<>>
    /\ before = <<>>
    /\ op = NoOp
    /\ call \in Calls
    /\ batch = NoBatch

Return(r) ==
    /\ call' = [call EXCEPT !.done = TRUE, !.raised = r.raised, !.out = r.val]
    /\ UNCHANGED <<file, before, op, batch>>

NormalizeCnnComponent ==
    /\ ~call.done
    /\ call.fn = "normalize_cnn_component"
    /\ Return(normalize_cnn_component(call.comp, call.args[1], call.hist))

NormalizeAaiiSentiment ==
    /\ ~call.done
    /\ call.fn = "normalize_aaii_sentiment"
    /\ Return(Returned(normalize_aaii_sentiment(call.args[1])))

CalculateAaiiComposite ==
    /\ ~call.done
    /\ call.fn = "calculate_aaii_composite"
    /\ Return(Returned(calculate_aaii_composite(call.args[1], call.args[2],
                                                call.args[3])))

ConvertSentiment ==
    /\ ~call.done
    /\ call.fn = "convert_sentiment"
    /\ Return(Returned(convert_sentiment(call.args[1][1])))

NextNorm ==
    \/ NormalizeCnnComponent
    \/ NormalizeAaiiSentiment
    \/ CalculateAaiiComposite
    \/ ConvertSentiment

SpecNorm == InitNorm /\ [][NextNorm]_vars


(***************************************************************************)
(* Properties.                                                             *)
(***************************************************************************)
Lines(rows) == {rows[i] : i \in 1..Len(rows)}

\* the lines of the file that were not in it when the handler began
NewLines == Lines(file) \ Lines(before)

\* a printed value cell within [-50, +50]
CellInRange(cell) == cell.num /\ -5000 <= cell.v /\ cell.v <= 5000

ValuesInRange(row) == \A j \in 1..4 : j <= Len(row.c) => CellInRange(row.c[j])

RatInRange(q) == -50 * q[2] <= q[1] /\ q[1] <= 50 * q[2]

Ran == op.name # "init"

C1_Covered ==
    \/ op.name = "process_historical_to_csv" /\ op.arg # "None"
    \/ op.name = "process_aaii_data"
    \/ /\ op.name = "process_ocr_data"
       /\ \A i \in 1..Len(op.raw) :
            op.raw[i].ok => ~RLess(op.raw[i].y, RInt(0)) /\ ~RLess(RInt(100), op.raw[i].y)

C2_NormalizersInRange ==
    /\ call.done
    /\ ~call.raised
    /\ call.fn \in {"normalize_cnn_component", "normalize_aaii_sentiment",
                    "calculate_aaii_composite"}
    => RatInRange(call.out)

\* a spike far above the assumed domain came back as the bound
C2_Witness ==
    /\ call.done
    /\ call.fn = "normalize_cnn_component"
    /\ call.comp = "stock_price_breadth"
    /\ call.args[1] = RInt(3000)
    /\ call.out = RInt(50)

\* <<minimum, midpoint, maximum>> of the domain a rule assumes
HasDomain(fn, comp) ==
    \/ fn = "normalize_cnn_component" /\ comp \notin {"market_momentum_sp125", "unrecognized"}
    \/ fn \in {"normalize_aaii_sentiment", "convert_sentiment"}

Domain(fn, comp) ==
    IF fn = "normalize_cnn_component" /\ comp = "put_call_options"
    THEN <<RInt(0), RInt(1), RInt(2)>>
    ELSE IF fn = "normalize_cnn_component" /\ comp = "junk_bond_demand"
    THEN <<Rat(1, 2), Rat(5, 4), RInt(2)>>
    ELSE IF fn = "normalize_cnn_component"
            /\ comp \in {"safe_haven_demand", "stock_price_strength"}
    THEN <<RInt(-20), RInt(0), RInt(20)>>
    ELSE IF fn = "normalize_cnn_component" /\ comp = "stock_price_breadth"
    THEN <<RInt(500), RInt(1250), RInt(2000)>>
    ELSE <<RInt(0), RInt(50), RInt(100)>>

\* C3: for each fixed-domain rule the domain minimum maps exactly to -50,
\* the domain midpoint exactly to 0 and the domain maximum exactly to +50.
C3_AnchorPoints ==
    call.done /\ HasDomain(call.fn, call.comp) =>
        LET d == Domain(call.fn, call.comp)
        IN  /\ call.args[1] = d[1] => ~call.raised /\ call.out = RInt(-50)
            /\ call.args[1] = d[2] => ~call.raised /\ call.out = RInt(0)
            /\ call.args[1] = d[3] => ~call.raised /\ call.out = RInt(50)

\* the midpoint 1.25 of the demand-ratio domain came back as 0
C3_Witness ==
    /\ call.done
    /\ call.fn = "normalize_cnn_component"
    /\ call.comp = "junk_bond_demand"
    /\ call.args[1] = Rat(5, 4)
    /\ call.out = RInt(0)

\* a row of the shape the program itself writes, with a date key of 9 characters
OwnRow(row) ==
    /\ ~row.bad
    /\ Len(row.k) = 9
    /\ Len(row.c) = 5
    /\ row.c[1].num /\ row.c[1].dp = 1
    /\ row = Ohlc(row.k, row.c[1])

RowsWithKey(rows, key) == {rows[i] : i \in {j \in 1..Len(rows) : rows[j].k = key}}

UniqueKey(rows, key) == Cardinality({j \in 1..Len(rows) : rows[j].k = key}) = 1

StrictlyIncreasing(rows) ==
    \A i \in 1..(Len(rows) - 1) : StrLess(rows[i].k, rows[i + 1].k)

\* a file as the program itself leaves it
WellFormedFile(rows) ==
    StrictlyIncreasing(rows) /\ \A i \in 1..Len(rows) : OwnRow(rows[i])

\* C4: for every incoming point whose date key is already in the file, the
\* row persisted after the merge carries the values it had before the merge
\* (stated for keys stored once, in a row of the program's own shape).
C4_ExistingValuesKept ==
    Ran /\ ~op.raised =>
        \A i \in 1..Len(op.points) : \A row \in Lines(before) :
            row.k = op.points[i][1] /\ OwnRow(row) /\ UniqueKey(before, row.k)
                => RowsWithKey(file, row.k) = {row}

\* C5: running the same ingestion a second time on the same source data
\* leaves the file exactly as the first run left it.
C5_SecondRunChangesNothing ==
    op.repeat => file = before

\* the first run changed the file, the second run reached the write again
C5_Witness ==
    op.repeat /\ op.first_changed /\ op.wrote /\ ~op.raised /\ file = before

IsJsonParser == op.name \in {"parse_cnn_json", "parse_alternative_me_json"}

\* the points of the run whose date key the file did not hold
AbsentPoints == {i \in 1..Len(op.points) : op.points[i][1] \notin KeysOf(before)}

\* the row the file holds for the date key of op.points[i] is the one made
\* of the first incoming point among those of `among` that has this key
InsertedFrom(among, i) ==
    LET first == CHOOSE j \in among :
                    /\ op.points[j][1] = op.points[i][1]
                    /\ \A l \in among : op.points[l][1] = op.points[i][1] => j <= l
    IN  RowsWithKey(file, op.points[i][1])
            = {Ohlc(op.points[first][1], op.points[first][2])}

\* C6 (as claimed): every incoming point whose date key is absent from the
\* file is inserted by the merge, whether its date is older or newer than
\* the rows stored, parse_cnn_json and parse_alternative_me_json included
\* (stated for a file as the program leaves it and, for parse_cnn_json, for
\* the points it does not reject for a value above 100).
C6_EveryAbsentPointInserted ==
    LET valid == {i \in AbsentPoints :
                    op.name = "parse_cnn_json" => op.points[i][2].v <= 10000}
    IN  Ran /\ ~op.raised /\ WellFormedFile(before)
            => \A i \in valid : InsertedFrom(valid, i)

\* the points parse_cnn_json / parse_alternative_me_json hand on: those with
\* a date key greater than the first field of the last line of the file
C6_Passed ==
    {i \in AbsentPoints :
        IsJsonParser =>
            /\ before = <<>> \/ StrLess(before[Len(before)].k, op.points[i][1])
            /\ op.name = "parse_cnn_json" => op.points[i][2].v <= 10000}

\* C6 (amended): append_to_csv (called by process_historical_to_csv and
\* process_aaii_data), process_ocr_data and SentimentProcessor.write_csv
\* insert every incoming point whose date key is absent, older or newer;
\* parse_cnn_json and parse_alternative_me_json insert an absent point only
\* if its date key is greater than the first field of the file's last line,
\* and insert no other.
C6_AbsentPointInsertedIfPassedOn ==
    Ran /\ ~op.raised =>
        /\ \A i \in C6_Passed : InsertedFrom(C6_Passed, i)
        /\ \A i \in AbsentPoints \ C6_Passed : op.points[i][1] \notin KeysOf(file)

\* a date older than the rows stored was inserted by process_aaii_data, and
\* a date newer than the last line was inserted by parse_alternative_me_json
C6_Witness ==
    /\ Ran /\ ~op.raised /\ before # <<>>
    /\ \E i \in C6_Passed :
        /\ InsertedFrom(C6_Passed, i)
        /\ \/ /\ op.name = "process_aaii_data"
              /\ \A j \in 1..Len(before) : StrLess(op.points[i][1], before[j].k)
           \/ op.name = "parse_alternative_me_json"

\* C7 (as claimed): after any merge operation, from any file content, the
\* rows of the file are strictly increasing by date key.
C7_AlwaysStrictlyIncreasing ==
    Ran => StrictlyIncreasing(file)

\* C7 (amended): after a merge that reaches the write and completes, the
\* rows of the file are strictly increasing by date key, whatever the file
\* held; a run that does not reach the write leaves the file as it was.
C7_StrictlyIncreasingAfterWrite ==
    /\ op.wrote /\ ~op.raised => StrictlyIncreasing(file)
    /\ Ran /\ ~op.wrote => file = before

\* a file with a repeated or out-of-order date key was rewritten in order
C7_Witness ==
    /\ op.wrote /\ ~op.raised
    /\ ~StrictlyIncreasing(before)
    /\ \A i \in 1..Len(before) : Len(before[i].k) = 9
    /\ StrictlyIncreasing(file) /\ file # <<>>

\* C8: when the write fails during Persist, the file is as it was before
\* the merge (stated for a file as the program leaves it).
C8_FailedWriteLeavesFile ==
    op.wrote /\ op.fk # "none" /\ before # <<>> /\ WellFormedFile(before)
        => file = before

\* C9: every row with a well-formed date key and at least six columns that
\* is in the file before a merge is in the file after it with the same
\* values, also when the file holds a malformed row or reading it raises
\* (stated for keys stored once, in a row of the program's own shape).
C9_HistoryKept ==
    Ran => \A row \in Lines(before) :
                OwnRow(row) /\ UniqueKey(before, row.k) => row \in Lines(file)

\* C10: a row whose date key is not 9 characters long is dropped on load
\* without raising, and the valid rows before and after it are still loaded:
\* after a completed write the file holds every valid row and no such row.
C10_MalformedRowsDropped ==
    Ran /\ op.wrote /\ ~AnyBad(before) =>
        /\ ~op.raised
        /\ \A i \in 1..Len(before) :
            Len(before[i].k) # 9 =>
                /\ before[i] \notin Lines(file)
                /\ \A j \in 1..Len(before) :
                    OwnRow(before[j]) /\ UniqueKey(before, before[j].k)
                        => before[j] \in Lines(file)

\* a row the loaders take in: at least six columns
Loadable(row) == ~row.bad /\ Len(row.c) >= 5

\* no line stops a reader: none is rejected by csv.reader and every second
\* field of a six-column row is a number
ReadableFile(rows) ==
    \A i \in 1..Len(rows) :
        ~rows[i].bad /\ (Len(rows[i].c) >= 5 => rows[i].c[1].num)

\* C11: when the loaded file holds several rows with the same date key, the
\* first of them in file order is the row retained after the merge and the
\* later ones are discarded (stated for a first row of the program's own
\* shape in a file every line of which can be read).
C11_FirstRowWins ==
    Ran /\ op.wrote /\ ~op.raised /\ ReadableFile(before) =>
        \A i \in 1..Len(before) :
            /\ OwnRow(before[i])
            /\ \A j \in 1..(i - 1) : ~(before[j].k = before[i].k /\ Loadable(before[j]))
            /\ \E j \in (i + 1)..Len(before) :
                    before[j].k = before[i].k /\ Loadable(before[j])
            => RowsWithKey(file, before[i].k) = {before[i]}

\* C12: loading a file that a merge has persisted and persisting it again
\* with no new point reproduces the same rows in the same ascending order,
\* with no date key twice.
C12_RoundTrip ==
    op.name = "reload" /\ ~op.raised =>
        file = before /\ StrictlyIncreasing(file)

\* a file of two rows persisted by process_ocr_data came back unchanged
C12_Witness ==
    /\ op.name = "reload" /\ op.arg = "process_ocr_data" /\ ~op.raised
    /\ Len(before) >= 2
    /\ file = before

\* the rows of the file under a date key the file did not hold before the run
InsertedRows == {file[i] : i \in {j \in 1..Len(file) : file[j].k \notin KeysOf(before)}}

\* C13: every row a merge inserts has the form (date key, v, v, v, v, "0"):
\* one value, printed the same way in the four value columns, and "0" in the
\* trailing column.
C13_InsertedRowShape ==
    Ran => \A row \in InsertedRows :
                /\ Len(row.c) = 5
                /\ row.c[1].num
                /\ row.c[2] = row.c[1] /\ row.c[3] = row.c[1] /\ row.c[4] = row.c[1]
                /\ row.c[5] = [num |-> TRUE, v |-> 0, dp |-> 0]

\* SentimentProcessor.write_csv inserted a row next to the rows stored
C13_Witness ==
    /\ op.name = "write_csv" /\ ~op.raised
    /\ before # <<>>
    /\ \E row \in InsertedRows : row.c[4] = Pct(9900) /\ row.c[5].v = 0

\* (bullish - bearish) * (1 - neutral/100)^2 as one fraction <<numerator,
\* denominator>>, the denominator positive
CompositeFraction(bullish, bearish, neutral) ==
    <<(bullish[1] * bearish[2] - bearish[1] * bullish[2])
        * (100 * neutral[2] - neutral[1]) * (100 * neutral[2] - neutral[1]),
      bullish[2] * bearish[2] * (100 * neutral[2]) * (100 * neutral[2])>>

\* C14: calculate_aaii_composite returns (bullish - bearish) *
\* (1 - neutral/100)^2 cut to [-50, 50]; (75, 25, 0) gives 50, and neutral =
\* 100 gives 0 whatever bullish and bearish are.
C14_CompositeFormula ==
    call.done /\ call.fn = "calculate_aaii_composite" =>
        LET f == CompositeFraction(call.args[1], call.args[2], call.args[3])
        IN  /\ ~call.raised
            /\ f[1] > 50 * f[2] => call.out = <<50, 1>>
            /\ f[1] < -50 * f[2] => call.out = <<-50, 1>>
            /\ (f[1] <= 50 * f[2] /\ f[1] >= -50 * f[2])
                    => call.out[1] * f[2] = f[1] * call.out[2]
            /\ call.args = <<RInt(75), RInt(25), RInt(0)>> => call.out = <<50, 1>>
            /\ call.args[3] = RInt(100) => call.out = <<0, 1>>

\* a spread of 50 with a third of the answers neutral: 50 * 0.75^2 = 28.125
C14_Witness ==
    /\ call.done /\ call.fn = "calculate_aaii_composite"
    /\ call.args = <<RInt(75), RInt(25), RInt(25)>>
    /\ call.out = <<225, 8>>

IsOscillatorCall ==
    call.done /\ call.fn = "normalize_cnn_component"
              /\ call.comp = "market_momentum_sp125"

\* the entries the baseline is taken over: the last 365 of the history, or
\* all of it when it has fewer
WindowLen == HLenLast(call.hist, MAWindow)

WindowSum == HSumLast(call.hist, MAWindow)

\* C15: the oscillator rule returns exactly 0, without raising, whenever the
\* history is empty or the mean of the window it uses is 0, for every length
\* of the history, 365 entries or more included.
C15_DegenerateWindowGivesZero ==
    IsOscillatorCall /\ (call.hist = <<>> \/ WindowSum[1] = 0) =>
        ~call.raised /\ call.out = <<0, 1>>

\* ((v - ma) / ma) * 100 * 5 for ma = WindowSum / WindowLen, in lowest terms
OscillatorFraction ==
    LET v == call.args[1]
    IN  Rat(500 * (v[1] * WindowLen * WindowSum[2] - WindowSum[1] * v[2]),
            v[2] * WindowSum[1])

\* C16: for a non-empty history whose window has a non-zero mean ma, the
\* oscillator rule returns ((v - ma) / ma) * 100 * 5 cut to [-50, 50], ma
\* being the mean of the last 365 history values when there are at least
\* 365 and of all of them otherwise.
C16_OscillatorFormula ==
    IsOscillatorCall /\ call.hist # <<>> /\ WindowSum[1] # 0 =>
        LET f == OscillatorFraction
        IN  /\ ~call.raised
            /\ f[1] > 50 * f[2] => call.out = <<50, 1>>
            /\ f[1] < -50 * f[2] => call.out = <<-50, 1>>
            /\ (f[1] <= 50 * f[2] /\ f[1] >= -50 * f[2]) => call.out = f

\* 366 entries, the oldest one far off: the baseline is the last 365 (100),
\* and 105 lies 5 percent above it
C16_Witness ==
    /\ IsOscillatorCall
    /\ call.hist = <<<<RInt(-100), 1>>, <<RInt(100), MAWindow>>>>
    /\ call.args[1] = RInt(105)
    /\ call.out = <<25, 1>>

\* the call of the worked example: 364 values 100 followed by one value 110,
\* evaluated at v = 110
IsWorkedExample ==
    /\ IsOscillatorCall
    /\ call.hist = <<<<RInt(100), 364>>, <<RInt(110), 1>>>>
    /\ call.args[1] = RInt(110)

\* q lies in [lo, hi] / scale
Within(q, lo, hi, scale) == lo * q[2] <= scale * q[1] /\ scale * q[1] <= hi * q[2]

\* C17 (as claimed): for the worked example the baseline mean is about
\* 100.0277, the deviation about +9.7 percent and the result about +48.6, a
\* value inside [-50, 50].
C17_WorkedExampleAsStated ==
    IsWorkedExample =>
        LET ma == Rat(WindowSum[1], WindowSum[2] * WindowLen)
            deviation_pct == Rat(100 * (110 * ma[2] - ma[1]), ma[1])
        IN  /\ ~call.raised
            /\ Within(ma, 1000272, 1000282, 10000)
            /\ Within(deviation_pct, 96, 98, 10)
            /\ Within(call.out, 485, 487, 10)

\* C17 (amended): for the worked example the baseline mean is 36510/365,
\* about 100.0274, the deviation about +9.97 percent and the result about
\* +49.85, a value inside [-50, 50].
C17_WorkedExample ==
    IsWorkedExample =>
        LET ma == Rat(WindowSum[1], WindowSum[2] * WindowLen)
            deviation_pct == Rat(100 * (110 * ma[2] - ma[1]), ma[1])
        IN  /\ ~call.raised
            /\ ma = <<7302, 73>>
            /\ Within(ma, 1000273, 1000275, 10000)
            /\ Within(deviation_pct, 9965, 9975, 1000)
            /\ Within(call.out, 4984, 4986, 100)
            /\ Within(call.out, -50, 50, 1)

C17_Witness ==
    IsWorkedExample /\ call.out = <<182000, 3651>>

(***************************************************************************)
(* The loops over the instruments of one run.                              *)
(*   batch.loop          : the function whose loop runs                    *)
(*   batch.items         : the instruments it goes through, in order       *)
(*   batch.next          : index of the next one                           *)
(*   batch.seed          : the seed file read by process_ocr_data          *)
(*   batch.loaded        : process_ocr_data is past its two early returns  *)
(*   batch.files0        : file name -> its lines when the loop began      *)
(*   batch.files         : file name -> its lines now                      *)
(*   batch.failed        : files whose write raised                        *)
(*   batch.halted        : an exception has left the loop                  *)
(*   batch.done          : the loop is over                                *)
(*   batch.updated_count : the counter process_ocr_data returns            *)
(***************************************************************************)
\* the four append_to_csv calls of process_aaii_data, in order
AaiiSeries == <<"BULLISH", "BEARISH", "NEUTRAL", "COMPOSITE">>

\* CNNFEARGREED.csv (component_name None), then CNN_COMPONENT_TO_CSV.items()
CnnComponentFiles ==
    <<"None", "junk_bond_demand", "market_momentum_sp125", "market_volatility_vix",
      "market_volatility_vix_50", "put_call_options", "safe_haven_demand",
      "stock_price_breadth", "stock_price_strength">>

\* keys of processor.data_by_pair: the pair strings of the JSON entries
DataByPair == <<"EURUSD", "GBPUSD", "USDJPY", "eurusd">>

\* pair.upper()
Upper(pair) == IF pair = "eurusd" THEN "EURUSD" ELSE pair

\* instruments of the OCR file: two of the mapping, one outside it
AndroidInstruments == {"EURUSD", "DOTUSD", "XYZ"}

\* the two names the mapping has for gold, next to a forex pair
GoldInstruments == {"GOLD", "XAUUSD", "EURUSD"}

SystemSymbols == {"EURUSD", "DOT", "XYZ", "XAUUSD"}

\* ANDROID_TO_SYSTEM_SYMBOL.get(android_instrument); "" stands for None
ANDROID_TO_SYSTEM_SYMBOL(android_instrument) ==
    IF android_instrument = "EURUSD" THEN "EURUSD"
    ELSE IF android_instrument = "DOTUSD" THEN "DOT"
    ELSE IF android_instrument \in {"GOLD", "XAUUSD"} THEN "XAUUSD"
    ELSE ""

\* an entry of data['symbol'] is base followed by suffix
SeedSymbols ==
    {[base |-> "EURUSD", suffix |-> "SENTIMENT"],
     [base |-> "DOT", suffix |-> "SENTIMENT"],
     [base |-> "XAUUSD", suffix |-> "SENTIMENT"],
     [base |-> "XYZ", suffix |-> ""],
     [base |-> "CNN", suffix |-> "FEARGREED"]}

SeedFiles ==
    {[readable |-> TRUE, symbol |-> s] : s \in SUBSET SeedSymbols}
    \cup {[readable |-> FALSE, symbol |-> {}]}

load_allowed_symbols(seed) ==
    IF ~seed.readable THEN {}
    ELSE {s.base : s \in {t \in seed.symbol : t.suffix # "FEARGREED"}}

\* the instrument-to-symbol part of the loop body without
\* "if system_symbol not in allowed_symbols: continue"
SystemSymbolUnchecked(android_instrument, allowed_symbols) ==
    IF ANDROID_TO_SYSTEM_SYMBOL(android_instrument) # ""
    THEN ANDROID_TO_SYSTEM_SYMBOL(android_instrument)
    ELSE IF android_instrument \in allowed_symbols THEN android_instrument ELSE ""

\* the symbol whose file the loop body of process_ocr_data goes on to
\* update for an instrument; "" when it takes one of the two "continue"
SystemSymbol(android_instrument, allowed_symbols) ==
    LET mapped == ANDROID_TO_SYSTEM_SYMBOL(android_instrument)
        system_symbol ==
            IF mapped # "" THEN mapped
            ELSE IF android_instrument \in allowed_symbols
                 THEN android_instrument ELSE ""
    IN  IF system_symbol \in allowed_symbols THEN system_symbol ELSE ""

\* sequences of distinct elements of S
Orders(S) ==
    {s \in SeqsUpTo(S, Cardinality(S)) :
        \A i, j \in 1..Len(s) : i # j => s[i] # s[j]}

\* every file of a batch starts empty or with one row of an earlier day
BatchFiles(names) ==
    {[n \in names |-> c] : c \in {<<>>, <<Ohlc(K(0), Pct(-2000))>>}}

Range(s) == {s[i] : i \in 1..Len(s)}

StartBatch(loop, items, seed, files) ==
    [loop |-> loop, items |-> items, next |-> 1, seed |-> seed, loaded |-> FALSE,
     files0 |-> files, files |-> files, failed |-> {}, halted |-> FALSE,
     done |-> items = <<>>, updated_count |-> 0]

NoSeed == [readable |-> FALSE, symbol |-> {}]

InitBatch ==
    /\ file = <<>>
    /\ before = <<>>
    /\ op = NoOp
    /\ call = NoCall
    /\ batch \in
        {StartBatch("main", DataByPair, NoSeed, f) :
            f \in BatchFiles({Upper(DataByPair[i]) : i \in 1..Len(DataByPair)})}
        \cup {StartBatch("process_aaii_data", AaiiSeries, NoSeed, f) :
                f \in BatchFiles(Range(AaiiSeries))}
        \cup {StartBatch("process_cnn_components", CnnComponentFiles, NoSeed, f) :
                f \in BatchFiles(Range(CnnComponentFiles))}
        \cup {[StartBatch("process_ocr_data", items, seed, f) EXCEPT !.done = FALSE] :
                items \in Orders(AndroidInstruments) \cup Orders(GoldInstruments),
                seed \in SeedFiles,
                f \in BatchFiles(SystemSymbols)}

\* the loop after the body has run for batch.items[batch.next] on file name:
\* an exception that leaves the body either ends the loop (halts) or not
Stepped(name, out, halts) ==
    [batch EXCEPT !.files[name] = out.content,
                  !.failed = IF out.raised THEN @ \cup {name} ELSE @,
                  !.halted = halts,
                  !.next = IF halts THEN @ ELSE @ + 1,
                  !.done = halts \/ batch.next = Len(batch.items)]

\* what every source holds for an instrument in these runs: one observation
\* of a day after the row the files may start with
ObsDay(instrument) == IF instrument \in {"GOLD", "eurusd"} THEN 2 ELSE 1

BatchObs(instrument, y) == <<Obs(ObsDay(instrument), 0, RInt(y))>>

\* main(): "for pair in processor.data_by_pair: processor.write_csv(...)";
\* write_csv re-raises and so does main's except
MainWritePair(fk, k) ==
    /\ batch.loop = "main" /\ ~batch.done
    /\ \E pair \in {batch.items[batch.next]} :
        \E out \in {write_csv(batch.files[Upper(pair)], BatchObs(pair, -20), fk, k)} :
            batch' = Stepped(Upper(pair), out, out.raised)
    /\ UNCHANGED <<file, before, op, call>>

\* process_aaii_data: four append_to_csv calls in one try block
AaiiAppendSeries(fk, k) ==
    /\ batch.loop = "process_aaii_data" /\ ~batch.done
    /\ \E series \in {batch.items[batch.next]} :
        \E out \in {process_aaii_data(batch.files[series], series,
                        <<Entry(1, 0, RInt(75), RInt(25), RInt(0), TRUE)>>, fk, k)} :
            batch' = Stepped(series, out, out.raised)
    /\ UNCHANGED <<file, before, op, call>>

\* process_cnn_components: process_historical_to_csv for CNNFEARGREED.csv
\* and for every component, all inside one try block
CnnProcessComponent(fk, k) ==
    /\ batch.loop = "process_cnn_components" /\ ~batch.done
    /\ \E component_name \in {batch.items[batch.next]} :
        \E out \in {process_historical_to_csv(batch.files[component_name],
                        BatchObs(component_name, 1), component_name, fk, k)} :
            batch' = Stepped(component_name, out, out.raised)
    /\ UNCHANGED <<file, before, op, call>>

\* process_ocr_data up to its loop: "if not allowed_symbols: return 0",
\* "if not ocr_data: return 0"
OcrLoadAllowed ==
    /\ batch.loop = "process_ocr_data" /\ ~batch.done /\ ~batch.loaded
    /\ batch' = [batch EXCEPT !.loaded = TRUE,
                     !.done = load_allowed_symbols(batch.seed) = {}
                              \/ batch.items = <<>>]
    /\ UNCHANGED <<file, before, op, call>>

\* one pass of "for android_instrument, date_data in ocr_data.items()";
\* write_csv of transfer_ocr_to_csv.py returns False instead of raising
OcrProcessInstrument(fk, k) ==
    /\ batch.loop = "process_ocr_data" /\ ~batch.done /\ batch.loaded
    /\ \E system_symbol \in {SystemSymbol(batch.items[batch.next],
                                  load_allowed_symbols(batch.seed))} :
        IF system_symbol = ""
        THEN batch' = [batch EXCEPT !.next = @ + 1,
                           !.done = batch.next = Len(batch.items)]
        ELSE \E out \in {process_ocr_data(batch.files[system_symbol],
                             BatchObs(batch.items[batch.next], 30), fk, k)} :
                batch' = [Stepped(system_symbol, out, FALSE) EXCEPT
                             !.updated_count =
                                 IF out.wrote /\ ~out.raised THEN @ + 1 ELSE @]
    /\ UNCHANGED <<file, before, op, call>>

NextBatch ==
    \/ \E fk \in {"none", "open", "partial"}, k \in 0..1 :
        \/ MainWritePair(fk, k)
        \/ AaiiAppendSeries(fk, k)
        \/ CnnProcessComponent(fk, k)
        \/ OcrProcessInstrument(fk, k)
    \/ OcrLoadAllowed

SpecBatch == InitBatch /\ [][NextBatch]_vars

\* the file a loop updates for one of its instruments; "" when it skips it
FileOf(instrument) ==
    IF batch.loop = "process_ocr_data"
    THEN SystemSymbol(instrument, load_allowed_symbols(batch.seed))
    ELSE IF batch.loop = "main" THEN Upper(instrument)
    ELSE instrument

\* the observation of the instrument has been merged into its file and written
Persisted(instrument) ==
    K(ObsDay(instrument)) \in KeysOf(batch.files[FileOf(instrument)])

BatchOver == batch.loop # "none" /\ batch.done

\* C18: when the write of one instrument's file fails, every other instrument
\* of the batch has its observation merged and persisted by the end of the loop
C18_FailureConfinedToInstrument ==
    BatchOver /\ batch.failed # {} =>
        \A i \in 1..Len(batch.items) :
            LET name == FileOf(batch.items[i])
            IN  name # "" /\ name \notin batch.failed => Persisted(batch.items[i])

\* the same for the loop of process_ocr_data alone, which goes on after a
\* failed write
C18_OcrLoopGoesOn ==
    batch.loop = "process_ocr_data" => C18_FailureConfinedToInstrument

\* a process_ocr_data batch is over, one file failed and another was written
C18_OcrWitness ==
    /\ batch.loop = "process_ocr_data" /\ BatchOver
    /\ batch.failed # {}
    /\ \E i \in 1..Len(batch.items) :
        /\ FileOf(batch.items[i]) \notin batch.failed \cup {""}
        /\ Persisted(batch.items[i])

\* the file of a symbol has been written, or a write of it was attempted
Touched(symbol) ==
    batch.files[symbol] # batch.files0[symbol] \/ symbol \in batch.failed

\* C19: process_ocr_data touches <SYMBOL>SENTIMENT.csv only for a SYMBOL of
\* the allowed set loaded from the seed file; when that set is empty (the seed
\* file lists no sentiment symbol or cannot be read) it touches no file and
\* returns 0
C19_OnlyAllowedSymbolsWritten ==
    batch.loop = "process_ocr_data" =>
        LET allowed_symbols == load_allowed_symbols(batch.seed)
        IN  /\ \A symbol \in SystemSymbols : Touched(symbol) => symbol \in allowed_symbols
            /\ allowed_symbols = {} =>
                /\ batch.files = batch.files0
                /\ batch.loaded => batch.done /\ batch.updated_count = 0

\* process_ocr_data has returned after updating the file of an allowed symbol
\* and skipping a mapped instrument whose symbol is not in the seed file
C19_Witness ==
    /\ batch.loop = "process_ocr_data" /\ batch.done
    /\ Touched("EURUSD") /\ batch.updated_count > 0
    /\ "DOTUSD" \in Range(batch.items)
    /\ "DOT" \notin load_allowed_symbols(batch.seed)

\* process_ocr_data has returned 0 because the seed file could not be read,
\* with instruments in the OCR file
C19_EmptySetWitness ==
    /\ batch.loop = "process_ocr_data" /\ batch.done /\ batch.loaded
    /\ ~batch.seed.readable /\ batch.items # <<>>

(***************************************************************************)
(* webendpoint_json_data.py : parse_arguments and main_async.              *)
(* A run is a batch whose loop is "main_async":                            *)
(*   batch.args      : the namespace parse_arguments returns               *)
(*   batch.env       : source -> whether processing it succeeds this run   *)
(*   batch.processed : the sources processed, in order                     *)
(*   batch.raised    : an exception has left main_async                    *)
(*   batch.returned  : the value returned (when done and not raised)       *)
(***************************************************************************)
Sources == {"btc", "cnn", "aaii"}

\* the namespaces parse_arguments can return: one attribute per add_argument
Namespaces ==
    [btc_only : BOOLEAN, idx_only : BOOLEAN, eis_only : BOOLEAN,
     date : {"None", "2026-01-15"}, debug : BOOLEAN]

\* args.<name>: AttributeError when the parser defines no such option
GetAttr(args, name) ==
    IF name \in DOMAIN args THEN [raised |-> FALSE, val |-> args[name]]
    ELSE [raised |-> TRUE, val |-> FALSE]

\* "a or b": b is evaluated only when a is false
OrElse(a, args, name) ==
    IF a.raised \/ a.val THEN a ELSE GetAttr(args, name)

\* main_async after "if process_all or args.<flag>:" for the sources in
\* order[1..n]; the body of the if runs the source and records its result
\* (download_alternative_me returns nothing: results['btc'] stays True)
RECURSIVE ProcessSources(_, _, _, _, _)
ProcessSources(args, env, process_all, order, n) ==
    IF n = 0 THEN [raised |-> FALSE, processed |-> <<>>, results |-> [s \in Sources |-> TRUE]]
    ELSE LET acc == ProcessSources(args, env, process_all, order, n - 1)
             source == order[n][1]
             test == OrElse([raised |-> FALSE, val |-> process_all], args, order[n][2])
         IN  IF acc.raised THEN acc
             ELSE IF test.raised THEN [acc EXCEPT !.raised = TRUE]
             ELSE IF ~test.val THEN acc
             ELSE [acc EXCEPT !.processed = Append(@, source),
                              !.results[source] = IF source = "btc" THEN TRUE ELSE env[source]]

\* the three blocks of main_async, in order, with the attribute each tests
SourceBlocks == <<<<"btc", "btc_only">>, <<"cnn", "cnn_only">>, <<"aaii", "aaii_only">>>>

main_async(args, env) ==
    LET any_only == OrElse(OrElse(GetAttr(args, "btc_only"), args, "cnn_only"),
                           args, "aaii_only")
        run == ProcessSources(args, env, ~any_only.val, SourceBlocks, Len(SourceBlocks))
    IN  IF any_only.raised
        THEN [raised |-> TRUE, processed |-> <<>>, returned |-> FALSE]
        ELSE [raised |-> run.raised, processed |-> run.processed,
              returned |-> ~run.raised /\ \A s \in Sources : run.results[s]]

InitMain ==
    /\ file = <<>>
    /\ before = <<>>
    /\ op = NoOp
    /\ call = NoCall
    /\ batch \in {[loop |-> "main_async", args |-> a, env |-> e, done |-> FALSE,
                   raised |-> FALSE, processed |-> <<>>, returned |-> FALSE] :
                    a \in Namespaces, e \in [Sources -> BOOLEAN]}

MainAsync ==
    /\ batch.loop = "main_async" /\ ~batch.done
    /\ \E r \in {main_async(batch.args, batch.env)} :
        batch' = [batch EXCEPT !.done = TRUE, !.raised = r.raised,
                               !.processed = r.processed, !.returned = r.returned]
    /\ UNCHANGED <<file, before, op, call>>

NextMain == MainAsync

SpecMain == InitMain /\ [][NextMain]_vars

\* the selection flags given on the command line
Selected ==
    {f \in {"btc_only", "idx_only", "eis_only"} : batch.args[f]}

SourceOfFlag(f) ==
    IF f = "btc_only" THEN "btc" ELSE IF f = "idx_only" THEN "cnn" ELSE "aaii"

\* C20: with no selection flag main_async processes BTC, CNN and the survey
\* source in that order, with exactly one flag only that source, and in every
\* case it completes and returns true exactly when every source it processed
\* reported success
C20_SelectionAndResult ==
    batch.loop = "main_async" /\ batch.done =>
        /\ ~batch.raised
        /\ Selected = {} => batch.processed = <<"btc", "cnn", "aaii">>
        /\ \A f \in Selected : Selected = {f} => batch.processed = <<SourceOfFlag(f)>>
        /\ batch.returned <=> \A i \in 1..Len(batch.processed) : batch.env[batch.processed[i]]

\* what the code does on every command line: only --btc-only is ever read
\* before an option the parser does not define, so BTC may be processed and
\* nothing else, and no run completes
C20_NeverCompletes ==
    batch.loop = "main_async" /\ batch.done =>
        /\ batch.raised
        /\ batch.processed = IF batch.args.btc_only THEN <<"btc">> ELSE <<>>

(***************************************************************************)
(* main.py : main(), from the data processing to the two git operations.   *)
(* A run is a batch whose loop is "main()":                                *)
(*   batch.args   : source, --no-git, --no-publish                         *)
(*   batch.env    : how the data processing, GitHandler.push_changes and   *)
(*                  GitPublisher.publish end in this run when called:      *)
(*                  "True", "False" or "raise" (the processing returns     *)
(*                  nothing: "True" or "raise")                            *)
(*   batch.pc     : the statement main() is at                             *)
(*   batch.calls  : the operations invoked so far, in order                *)
(*   batch.status : the exit status of the process once pc = "exit"        *)
(***************************************************************************)
MainArgs ==
    [source : {"androidapp", "webscrapzyteapi"}, no_git : BOOLEAN, no_publish : BOOLEAN]

MainEnvs ==
    [processing : {"True", "raise"}, push_changes : {"True", "False", "raise"},
     publish : {"True", "False", "raise"}]

InitPipeline ==
    /\ file = <<>>
    /\ before = <<>>
    /\ op = NoOp
    /\ call = NoCall
    /\ batch \in {[loop |-> "main()", args |-> a, env |-> e, pc |-> "process",
                   calls |-> <<>>, status |-> 0] : a \in MainArgs, e \in MainEnvs}

\* an exception leaves main() through "except Exception: ... raise", and
\* sys.exit(1) leaves it as SystemExit: the process ends with status 1
Exits(status) == [pc |-> "exit", status |-> status]

Goes(pc) == [pc |-> pc, status |-> 0]

\* where main() goes after "if not git_handler.push_changes()", without
\* the sys.exit(1)
AfterPushChangesNoExit(result) ==
    IF result = "raise" THEN Exits(1) ELSE Goes("publish")

\* where main() goes after "if not git_handler.push_changes(): sys.exit(1)"
AfterPushChanges(result) ==
    IF result = "True" THEN Goes("publish") ELSE Exits(1)

\* where main() goes after "if not publisher.publish(): sys.exit(1)"
AfterPublish(result) ==
    IF result = "True" THEN Exits(0) ELSE Exits(1)

Moved(to, invoked) ==
    [batch EXCEPT !.pc = to.pc, !.status = to.status,
                  !.calls = IF invoked = "" THEN @ ELSE Append(@, invoked)]

\* run_androidapp_pipeline, or parse_json and the write_csv loop
MainProcessData ==
    /\ batch.loop = "main()" /\ batch.pc = "process"
    /\ batch' = Moved(IF batch.env.processing = "True" THEN Goes("git") ELSE Exits(1),
                      IF batch.args.source = "androidapp"
                      THEN "run_androidapp_pipeline" ELSE "write_csv")
    /\ UNCHANGED <<file, before, op, call>>

\* "if not args.no_git: ... git_handler.push_changes()"
MainPushChanges ==
    /\ batch.loop = "main()" /\ batch.pc = "git"
    /\ batch' = IF batch.args.no_git THEN Moved(Goes("publish"), "")
                ELSE Moved(AfterPushChanges(batch.env.push_changes), "push_changes")
    /\ UNCHANGED <<file, before, op, call>>

\* "if not args.no_publish: ... publisher.publish()"
MainPublish ==
    /\ batch.loop = "main()" /\ batch.pc = "publish"
    /\ batch' = IF batch.args.no_publish THEN Moved(Exits(0), "")
                ELSE Moved(AfterPublish(batch.env.publish), "publish")
    /\ UNCHANGED <<file, before, op, call>>

NextPipeline == MainProcessData \/ MainPushChanges \/ MainPublish

SpecPipeline == InitPipeline /\ [][NextPipeline]_vars

Invoked(name) == \E i \in 1..Len(batch.calls) : batch.calls[i] = name

\* C21: push_changes is invoked only after the data processing has ended
\* without an exception and only without --no-git; publish is invoked only
\* without --no-publish and when the push was skipped by --no-git or returned
\* success; a failed push ends the process with status 1 and publish is never
\* invoked after it
C21_GitOperationsOrder ==
    batch.loop = "main()" =>
        /\ Invoked("push_changes") =>
            /\ Len(batch.calls) >= 2
            /\ batch.calls[1] \in {"run_androidapp_pipeline", "write_csv"}
            /\ batch.calls[2] = "push_changes"
            /\ batch.env.processing = "True"
            /\ ~batch.args.no_git
        /\ Invoked("publish") =>
            /\ ~batch.args.no_publish
            /\ batch.args.no_git \/ (Invoked("push_changes") /\ batch.env.push_changes = "True")
            /\ batch.env.processing = "True"
        /\ Invoked("push_changes") /\ batch.env.push_changes # "True" =>
            /\ batch.pc = "exit" /\ batch.status = 1
            /\ ~Invoked("publish")

\* push_changes has returned False in a run that asked for the publication
C21_Witness ==
    /\ batch.loop = "main()" /\ batch.pc = "exit"
    /\ Invoked("push_changes") /\ batch.env.push_changes = "False"
    /\ ~batch.args.no_publish /\ batch.status = 1

\* a run has pushed and then published
C21_PublishedWitness ==
    /\ batch.loop = "main()" /\ batch.pc = "exit" /\ batch.status = 0
    /\ batch.calls = <<"write_csv", "push_changes", "publish">>

(***************************************************************************)
(* process_historical_to_csv back-filling a new file from a list of raw    *)
(* values near a common level (90, 100, 110), where the oscillator rule    *)
(* stays inside its clamp and the history it is given shows in the result. *)
(***************************************************************************)
BackfillInputs ==
    {Obs(d, 0, RInt(y)) : d \in Days, y \in {90, 100, 110}} \cup {Unusable}

InitBackfill ==
    /\ file = <<>>
    /\ before = <<>>
    /\ op = NoOp
    /\ call = NoCall
    /\ batch = NoBatch

Backfill ==
    /\ op.name = "init"
    /\ \E component_name \in {"None", "market_momentum_sp125"},
          data \in SeqsUpTo(BackfillInputs, MaxBackfill) :
        \E out \in {process_historical_to_csv(file, data, component_name, "none", 0)} :
            Apply("process_historical_to_csv", component_name, data, "none", out)

NextBackfill == Backfill

SpecBackfill == InitBackfill /\ [][NextBackfill]_vars

\* y of data[0] + ... + y of data[i-1] (Python indices), i entries
RECURSIVE SumY(_, _)
SumY(data, i) == IF i = 0 THEN RInt(0) ELSE RAdd(SumY(data, i - 1), data[i].y)

\* the oscillator rule for entry i on the mean of entries 1..i, entry i included
OscillatorOnOwnPrefix(data, i) ==
    LET ma == RDiv(SumY(data, i), RInt(i))
    IN  IF RZero(ma) THEN RInt(0)
        ELSE Clamp50(RMul(RDiv(RSub(data[i].y, ma), ma), RInt(500)))

\* C22: process_historical_to_csv normalizes the entry at every index of its
\* input with the history made of the entries up to and including it: every
\* point it derives for the oscillator component is the rule applied to the
\* mean of that prefix (entries without a value are skipped; one followed by
\* a usable entry makes the call raise)
C22_SelfInclusivePrefix ==
    /\ op.name = "process_historical_to_csv"
    /\ op.arg = "market_momentum_sp125"
    /\ ~op.raised
    =>  /\ Len(op.points) = Cardinality({i \in 1..Len(op.raw) : op.raw[i].ok})
        /\ \A i \in 1..Len(op.points) :
            /\ op.raw[i].ok
            /\ op.points[i][2] = Fmt(OscillatorOnOwnPrefix(op.raw, i))

\* three entries 100, 110, 90 have been normalized: 0.0, then 23.8 on the
\* mean 105, then -50.0 on the mean 100
C22_Witness ==
    /\ op.name = "process_historical_to_csv"
    /\ op.arg = "market_momentum_sp125"
    /\ ~op.raised
    /\ Len(op.raw) = 3
    /\ op.raw[1].y = RInt(100) /\ op.raw[2].y = RInt(110) /\ op.raw[3].y = RInt(90)
    /\ op.points[2][2] = Pct(2380)
    /\ op.points[3][2] = Pct(-5000)

\* the cell a handler writes for a day observed once with raw value y
CellOfObservation(name, y) ==
    IF name = "process_ocr_data" THEN Fmt(convert_sentiment(y[1])) ELSE Fmt(Round1(y))

\* entry i of the batch is the first usable observation of its day and a
\* later usable one falls on the same day
FirstOfSeveral(raw, i) ==
    /\ raw[i].ok
    /\ \A j \in 1..(i - 1) : ~(raw[j].ok /\ raw[j].day = raw[i].day)
    /\ \E j \in (i + 1)..Len(raw) : raw[j].ok /\ raw[j].day = raw[i].day

\* C23: when a batch holds several observations of one calendar day and the
\* day is absent from the file, exactly one row is persisted for that day and
\* it carries the value of the first observation (OCR batch, JSON batch of
\* main.py; stated for a file as the program itself leaves it)
C23_FirstSameDayObservationWins ==
    /\ op.name \in {"process_ocr_data", "write_csv"}
    /\ op.wrote /\ ~op.raised /\ WellFormedFile(before)
    =>  \A i \in 1..Len(op.raw) :
            FirstOfSeveral(op.raw, i) /\ K(op.raw[i].day) \notin KeysOf(before)
            => RowsWithKey(file, K(op.raw[i].day))
                 = {Ohlc(K(op.raw[i].day), CellOfObservation(op.name, op.raw[i].y))}

\* the part of it that holds: the observations of one day collapse onto one
\* date key and exactly one row is persisted for it
C23_OneRowPerDay ==
    /\ op.name \in {"process_ocr_data", "write_csv"}
    /\ op.wrote /\ ~op.raised /\ WellFormedFile(before)
    =>  \A i \in 1..Len(op.raw) :
            FirstOfSeveral(op.raw, i) => UniqueKey(file, K(op.raw[i].day))

\* C24: two distinct instrument keys of one batch never resolve to the same
\* series file, so a file ends up with the observation of its own instrument
\* and of no other instrument of the batch (stated for batches without a
\* failed write)
C24_InstrumentFilesDisjoint ==
    batch.loop \in {"main", "process_ocr_data"} /\ batch.done /\ batch.failed = {} =>
        \A i, j \in 1..Len(batch.items) :
            i # j /\ FileOf(batch.items[i]) # "" =>
                /\ FileOf(batch.items[i]) # FileOf(batch.items[j])
                /\ ObsDay(batch.items[j]) # ObsDay(batch.items[i]) =>
                    K(ObsDay(batch.items[j]))
                        \notin KeysOf(batch.files[FileOf(batch.items[i])])

\* the same for the instruments whose names the mapping and upper() keep
\* apart: their files are disjoint
C24_DisjointForDistinctNames ==
    /\ batch.loop \in {"main", "process_ocr_data"} /\ batch.done /\ batch.failed = {}
    /\ Range(batch.items) \cap {"GOLD", "eurusd"} = {}
    => C24_InstrumentFilesDisjoint

IsCompositeCall == call.done /\ call.fn = "calculate_aaii_composite"

\* bullish - bearish of the call
Spread == RSub(call.args[1], call.args[2])

\* C25 as stated: for neutral > 100 the factor the spread is multiplied by is
\* negative, so the composite has the sign opposite to the spread
C25_NegativeFactorAsStated ==
    IsCompositeCall /\ RLess(RInt(100), call.args[3]) =>
        /\ RLess(RInt(0), Spread) => RLess(call.out, RInt(0))
        /\ RLess(Spread, RInt(0)) => RLess(RInt(0), call.out)

\* C25: for neutral > 100 the base 1 - neutral/100 is negative and the factor
\* the spread is multiplied by, its square, is positive: the composite has the
\* sign of the spread
C25_SquaredFactorPositive ==
    IsCompositeCall /\ RLess(RInt(100), call.args[3]) =>
        LET base == RSub(RInt(1), RDiv(call.args[3], RInt(100)))
            factor == RMul(base, base)
        IN  /\ RLess(base, RInt(0))
            /\ RLess(RInt(0), factor)
            /\ call.out = Clamp50(RMul(Spread, factor))
            /\ RLess(RInt(0), Spread) => RLess(RInt(0), call.out)
            /\ RLess(Spread, RInt(0)) => RLess(call.out, RInt(0))

\* bullish 75, bearish 25, neutral 130: 50 * (-0.3)^2 = 4.5
C25_Witness ==
    /\ IsCompositeCall
    /\ call.args = <<RInt(75), RInt(25), RInt(130)>>
    /\ call.out = <<9, 2>>

(***************************************************************************)
(* modules/webendpoint_scraper.py : RateLimiter.                           *)
(* Time is counted in whole seconds.  A limiter is a batch whose loop is   *)
(* "RateLimiter":                                                          *)
(*   batch.max_requests, batch.time_window : the constructor's arguments   *)
(*   batch.now      : the clock                                            *)
(*   batch.requests : self.requests                                        *)
(*   batch.returns  : the clock at the return of every wait_if_needed call *)
(***************************************************************************)
\* self.requests after the call and the seconds it sleeps, for a call that
\* reads the clock at now
wait_if_needed(requests, now, max_requests, time_window) ==
    LET kept == SelectSeq(requests, LAMBDA r : now - r < time_window)
        wait_time == IF Len(kept) >= max_requests
                     THEN kept[1] + time_window - now ELSE 0
    IN  [requests |-> Append(kept, now),
         slept |-> IF wait_time > 0 THEN wait_time ELSE 0]

InitLimiter ==
    /\ file = <<>>
    /\ before = <<>>
    /\ op = NoOp
    /\ call = NoCall
    /\ batch \in {[loop |-> "RateLimiter", max_requests |-> m, time_window |-> w,
                   now |-> 0, requests |-> <<>>, returns |-> <<>>] :
                    m \in 1..2, w \in 2..3}

\* a second passes between two calls
LimiterTick ==
    /\ batch.loop = "RateLimiter" /\ batch.now < MaxClock
    /\ batch' = [batch EXCEPT !.now = @ + 1]
    /\ UNCHANGED <<file, before, op, call>>

WaitIfNeeded ==
    /\ batch.loop = "RateLimiter" /\ Len(batch.returns) < MaxCalls
    /\ \E r \in {wait_if_needed(batch.requests, batch.now, batch.max_requests,
                                batch.time_window)} :
        batch' = [batch EXCEPT !.requests = r.requests,
                               !.now = @ + r.slept,
                               !.returns = Append(@, batch.now + r.slept)]
    /\ UNCHANGED <<file, before, op, call>>

NextLimiter == LimiterTick \/ WaitIfNeeded

SpecLimiter == InitLimiter /\ [][NextLimiter]_vars

\* the calls that return in the time_window seconds starting at second t
ReturnsFrom(t) ==
    {j \in 1..Len(batch.returns) :
        batch.returns[j] >= t /\ batch.returns[j] < t + batch.time_window}

\* C27: at most max_requests calls of wait_if_needed return within any
\* interval of time_window seconds
C27_AtMostMaxRequestsPerWindow ==
    batch.loop = "RateLimiter" =>
        \A i \in 1..Len(batch.returns) :
            Cardinality(ReturnsFrom(batch.returns[i])) <= batch.max_requests

(***************************************************************************)
(* modules/webendpoint_scraper.py : CNNScraper.fetch_cnn_data.             *)
(* An attempt of _fetch_cloudscraper ends with                             *)
(*   "data" : status 200 and a JSON document that is true in "if result"   *)
(*   "403"  : status 403 (counted in cloudflare_blocks), None returned     *)
(*   "ssl"  : SSLError (counted in ssl_errors), None returned              *)
(*   "None" : any other failure, or a JSON document that is false          *)
(* and _fetch_fallback with "data", "empty" (a JSON document that is       *)
(* false) or "None".  A scraper is a batch whose loop is "CNNScraper":     *)
(*   batch.max_retries : the constructor's argument                        *)
(*   batch.stats       : self.stats                                        *)
(*   batch.requests, batch.now : the rate limiter's list and the clock     *)
(*   batch.fetches     : completed calls of fetch_cnn_data                 *)
(*   batch.last        : the last call: its attempts of the primary        *)
(*                       method in order, the invocations of the fallback  *)
(*                       and what each returned, the value returned        *)
(***************************************************************************)
PrimaryOutcomes == {"data", "403", "ssl", "None"}

FallbackOutcomes == {"data", "empty", "None"}

\* "for attempt in range(self.max_retries)" going on after a success
RetryLoopNoReturn(primary, max_retries, n) ==
    [returned |-> \E i \in 1..n : primary[i] = "data",
     trace |-> SubSeq(primary, 1, n),
     slept |-> 0,
     blocks |-> Cardinality({i \in 1..n : primary[i] = "403"}),
     ssl |-> Cardinality({i \in 1..n : primary[i] = "ssl"})]

\* "for attempt in range(self.max_retries)" after n passes, or after the
\* return that ended it: the attempts made, the seconds of backoff slept,
\* the failures counted by _fetch_cloudscraper
RECURSIVE RetryLoop(_, _, _)
RetryLoop(primary, max_retries, n) ==
    IF n = 0
    THEN [returned |-> FALSE, trace |-> <<>>, slept |-> 0, blocks |-> 0, ssl |-> 0]
    ELSE LET acc == RetryLoop(primary, max_retries, n - 1)
             result == primary[n]
         IN  IF acc.returned THEN acc
             ELSE [returned |-> result = "data",
                   trace |-> Append(acc.trace, result),
                   slept |-> acc.slept + (IF result # "data" /\ n < max_retries
                                          THEN 2 ^ n ELSE 0),
                   blocks |-> acc.blocks + (IF result = "403" THEN 1 ELSE 0),
                   ssl |-> acc.ssl + (IF result = "ssl" THEN 1 ELSE 0)]

\* self.stats with a failure counted for every failed attempt
CountedPerAttempt(stats, loop, fallback) ==
    [stats EXCEPT !.total_requests = @ + 1,
                  !.success = @ + (IF loop.returned \/ fallback = "data" THEN 1 ELSE 0),
                  !.failed = @ + Cardinality({i \in 1..Len(loop.trace) :
                                                 loop.trace[i] # "data"}),
                  !.cloudflare_blocks = @ + loop.blocks,
                  !.ssl_errors = @ + loop.ssl]

\* self.stats after the call
Counted(stats, loop, fallback) ==
    [stats EXCEPT !.total_requests = @ + 1,
                  !.success = @ + (IF loop.returned \/ fallback = "data" THEN 1 ELSE 0),
                  !.failed = @ + (IF ~loop.returned /\ fallback # "data" THEN 1 ELSE 0),
                  !.cloudflare_blocks = @ + loop.blocks,
                  !.ssl_errors = @ + loop.ssl]

fetch_cnn_data(stats, max_retries, primary, fallback) ==
    LET loop == RetryLoop(primary, max_retries, max_retries)
    IN  [stats |-> Counted(stats, loop, fallback),
         trace |-> loop.trace,
         fallbacks |-> IF loop.returned THEN <<>> ELSE <<fallback>>,
         result |-> IF loop.returned THEN "data" ELSE fallback,
         slept |-> loop.slept]

InitScraper ==
    /\ file = <<>>
    /\ before = <<>>
    /\ op = NoOp
    /\ call = NoCall
    /\ batch \in {[loop |-> "CNNScraper", max_retries |-> m,
                   stats |-> [success |-> 0, failed |-> 0, cloudflare_blocks |-> 0,
                              ssl_errors |-> 0, total_requests |-> 0],
                   requests |-> <<>>, now |-> 0, fetches |-> 0,
                   last |-> [trace |-> <<>>, fallbacks |-> <<>>, result |-> "None"]] :
                    m \in 1..MaxRetries}

\* one call: the limiter (RateLimiter(10, 60)), the random delay of 2 to 7
\* seconds, the retry loop, the fallback
FetchCnnData ==
    /\ batch.loop = "CNNScraper" /\ batch.fetches < MaxFetches
    /\ \E primary \in [1..batch.max_retries -> PrimaryOutcomes],
          fallback \in FallbackOutcomes, delay \in {2, 7} :
        \E r \in {fetch_cnn_data(batch.stats, batch.max_retries, primary, fallback)},
           w \in {wait_if_needed(batch.requests, batch.now, 10, 60)} :
            batch' = [batch EXCEPT !.stats = r.stats,
                                   !.requests = w.requests,
                                   !.now = @ + w.slept + delay + r.slept,
                                   !.fetches = @ + 1,
                                   !.last = [trace |-> r.trace, fallbacks |-> r.fallbacks,
                                             result |-> r.result]]
    /\ UNCHANGED <<file, before, op, call>>

NextScraper == FetchCnnData

SpecScraper == InitScraper /\ [][NextScraper]_vars

Fetched == batch.loop = "CNNScraper" /\ batch.fetches > 0

\* C26: one call of fetch_cnn_data makes at most max_retries attempts of the
\* primary method, returns at the first that succeeds with nothing attempted
\* after it, invokes the fallback exactly once if and only if all max_retries
\* primary attempts failed, and returns None only when the fallback failed too
C26_RetriesThenFallback ==
    Fetched =>
        LET trace == batch.last.trace
            n == Len(trace)
        IN  /\ n >= 1 /\ n <= batch.max_retries
            /\ \A i \in 1..(n - 1) : trace[i] # "data"
            /\ trace[n] = "data" =>
                batch.last.result = "data" /\ batch.last.fallbacks = <<>>
            /\ Len(batch.last.fallbacks) <= 1
            /\ Len(batch.last.fallbacks) = 1 <=>
                (n = batch.max_retries /\ \A i \in 1..n : trace[i] # "data")
            /\ batch.last.result = "None" => batch.last.fallbacks = <<"None">>

\* a call whose second attempt succeeded, with a third one allowed
C26_Witness ==
    /\ Fetched /\ batch.max_retries = 3
    /\ batch.last.trace = <<"403", "data">>
    /\ batch.last.fallbacks = <<>>

\* a call that went through three failed attempts and a failed fallback
C26_FallbackWitness ==
    /\ Fetched /\ batch.max_retries = 3
    /\ Len(batch.last.trace) = 3
    /\ batch.last.fallbacks = <<"None">> /\ batch.last.result = "None"

\* C28: after every completed call of fetch_cnn_data, success + failed equals
\* total_requests: each call adds one to total_requests and one to exactly
\* one of success and failed
C28_StatsAddUp ==
    batch.loop = "CNNScraper" =>
        /\ batch.stats.total_requests = batch.fetches
        /\ batch.stats.success + batch.stats.failed = batch.stats.total_requests

\* two calls are over, one counted as a success after a failed attempt and
\* one as a failure
C28_Witness ==
    /\ Fetched /\ batch.stats.total_requests = 2
    /\ batch.stats.success = 1 /\ batch.stats.failed = 1
    /\ batch.stats.cloudflare_blocks + batch.stats.ssl_errors > 0

(***************************************************************************)
(* webscrap_zyteapi/pipelines.py : JsonHistoryPipeline.                    *)
(* A pipeline is a batch whose loop is "JsonHistoryPipeline":              *)
(*   batch.saved   : sentiment_history.json: absent, not parseable, or a   *)
(*                   list of records                                       *)
(*   batch.current_scrape_data, batch.timestamp : the attributes           *)
(*   batch.opened  : the spider is open                                    *)
(*   batch.scrapes : scrapes closed so far                                 *)
(*   batch.previous: the records the file held when the last close_spider  *)
(*                   began; batch.closed_with: current_scrape_data then    *)
(* A record is [pair, timestamp, sentiment_percent]; timestamps are the    *)
(* number of the scrape, 0 for records older than the first scrape.        *)
(***************************************************************************)
max_history == 99

HistoryRecord(pair, timestamp, sentiment_percent) ==
    [pair |-> pair, timestamp |-> timestamp, sentiment_percent |-> sentiment_percent]

\* a history of n records left by earlier scrapes
OldHistory(n) == [i \in 1..n |-> HistoryRecord(i, 0, 20)]

SavedFiles ==
    {[kind |-> "absent", records |-> <<>>], [kind |-> "corrupt", records |-> <<>>]}
    \cup {[kind |-> "list", records |-> OldHistory(n)] :
            n \in {0, 1, max_history - 2, max_history - 1, max_history}}

\* the items a spider yields: long and short percentages
ScrapedItems ==
    {[long_percentage |-> 70, short_percentage |-> 30],
     [long_percentage |-> 30, short_percentage |-> 70]}

\* sentiment_percent of process_item (the percentages are whole numbers here)
SentimentPercent(item) ==
    IF item.long_percentage >= 50 THEN item.long_percentage - 50
    ELSE IF item.short_percentage >= 50 THEN 50 - item.short_percentage
    ELSE 0

\* _save_sentiment_history putting the new records after the old ones and
\* keeping the last max_history
save_sentiment_history_appending(saved, current_scrape_data) ==
    LET history == (IF saved.kind = "list" THEN saved.records ELSE <<>>)
                   \o current_scrape_data
    IN  [kind |-> "list",
         records |-> IF Len(history) > max_history
                     THEN SubSeq(history, Len(history) - max_history + 1, Len(history))
                     ELSE history]

\* the file after _save_sentiment_history
save_sentiment_history(saved, current_scrape_data) ==
    LET loaded == IF saved.kind = "list" THEN saved.records ELSE <<>>
        history == current_scrape_data \o loaded
    IN  [kind |-> "list",
         records |-> IF Len(history) > max_history
                     THEN SubSeq(history, 1, max_history) ELSE history]

InitPipelineJson ==
    /\ file = <<>>
    /\ before = <<>>
    /\ op = NoOp
    /\ call = NoCall
    /\ batch \in {[loop |-> "JsonHistoryPipeline", saved |-> f,
                   current_scrape_data |-> <<>>, timestamp |-> 0, opened |-> FALSE,
                   scrapes |-> 0, previous |-> <<>>, closed_with |-> <<>>] :
                    f \in SavedFiles}

OpenSpider ==
    /\ batch.loop = "JsonHistoryPipeline" /\ ~batch.opened
    /\ batch.scrapes < MaxScrapes
    /\ batch' = [batch EXCEPT !.opened = TRUE, !.current_scrape_data = <<>>,
                              !.timestamp = batch.scrapes + 1]
    /\ UNCHANGED <<file, before, op, call>>

ProcessItem ==
    /\ batch.loop = "JsonHistoryPipeline" /\ batch.opened
    /\ Len(batch.current_scrape_data) < MaxItems
    /\ \E item \in ScrapedItems :
        batch' = [batch EXCEPT !.current_scrape_data =
                    Append(@, HistoryRecord(Len(@) + 1, batch.timestamp,
                                            SentimentPercent(item)))]
    /\ UNCHANGED <<file, before, op, call>>

CloseSpider ==
    /\ batch.loop = "JsonHistoryPipeline" /\ batch.opened
    /\ batch' = [batch EXCEPT
                    !.saved = save_sentiment_history(@, batch.current_scrape_data),
                    !.opened = FALSE,
                    !.scrapes = @ + 1,
                    !.previous = batch.saved.records,
                    !.closed_with = batch.current_scrape_data]
    /\ UNCHANGED <<file, before, op, call>>

NextPipelineJson == OpenSpider \/ ProcessItem \/ CloseSpider

SpecPipelineJson == InitPipelineJson /\ [][NextPipelineJson]_vars

SpiderClosed ==
    batch.loop = "JsonHistoryPipeline" /\ ~batch.opened /\ batch.scrapes > 0

\* C29: after every close_spider the saved history holds at most max_history
\* records: those of the current scrape first, then the previously saved
\* ones in their previous order, cut at the old end only
C29_HistoryNewestFirstCapped ==
    SpiderClosed =>
        LET records == batch.saved.records
            new == batch.closed_with
            old == batch.previous
        IN  /\ batch.saved.kind = "list"
            /\ Len(records) <= max_history
            /\ Len(records) = (IF Len(new) + Len(old) > max_history
                               THEN max_history ELSE Len(new) + Len(old))
            /\ \A i \in 1..Len(records) :
                records[i] = IF i <= Len(new) THEN new[i] ELSE old[i - Len(new)]

\* a scrape of three items has been saved over a full history: the three
\* oldest records are gone
C29_Witness ==
    /\ SpiderClosed
    /\ Len(batch.previous) = max_history /\ Len(batch.closed_with) = 3
    /\ Len(batch.saved.records) = max_history
    /\ batch.saved.records[4] = batch.previous[1]
    /\ batch.saved.records[max_history] = batch.previous[max_history - 3]

(***************************************************************************)
(* modules/webendpoint_parser.py : CNNFearGreedParser._merge_component_data*)
(* on the parsed file of one component.  A parser is a batch whose loop is *)
(* "CNNFearGreedParser":                                                   *)
(*   batch.data     : the 'data' array of the component's file             *)
(*   batch.merges   : calls made so far                                    *)
(*   batch.previous : the array when the last call began                   *)
(*   batch.new_data : new_component_data of the last call                  *)
(*   batch.again    : the last call merged the same new data as the call   *)
(*                    before it                                            *)
(* An item is [has_x, x, y]: has_x is FALSE for an item without the key x. *)
(***************************************************************************)
DataItem(x, y) == [has_x |-> TRUE, x |-> x, y |-> y]

NoXItem == [has_x |-> FALSE, x |-> 0, y |-> 1]

\* item.get('x', 0)
SortKey(item) == IF item.has_x THEN item.x ELSE 0

\* list.sort(key=...), which is stable, over items[1..n]
RECURSIVE SortByX(_, _)
SortByX(items, n) ==
    IF n = 0 THEN <<>>
    ELSE LET acc == SortByX(items, n - 1)
             after == {i \in 1..Len(acc) : SortKey(acc[i]) > SortKey(items[n])}
             at == IF after = {} THEN Len(acc) + 1
                   ELSE CHOOSE i \in after : \A j \in after : i <= j
         IN  SubSeq(acc, 1, at - 1) \o <<items[n]>> \o SubSeq(acc, at, Len(acc))

\* the arrays a component file holds before the calls: ascending, no x twice
StoredArrays ==
    {SortByX(s, Len(s)) :
        s \in {t \in SeqsUpTo({DataItem(x, 1) : x \in 1..MaxX}, MaxX) :
                  \A i, j \in 1..Len(t) : i < j => t[i].x < t[j].x}}

\* new_component_data: without the key 'data', or with a list of items
NewComponentData ==
    {[has_data |-> FALSE, data |-> <<>>]}
    \cup {[has_data |-> TRUE, data |-> d] :
            d \in SeqsUpTo({DataItem(x, 2) : x \in 1..MaxX} \cup {NoXItem}, MaxNew)}

\* the loop over new_component_data['data'][1..n]: existing_timestamps is
\* computed before the loop and not extended by it
RECURSIVE AppendNewItems(_, _, _, _)
AppendNewItems(data, existing_timestamps, new_items, n) ==
    IF n = 0 THEN data
    ELSE LET acc == AppendNewItems(data, existing_timestamps, new_items, n - 1)
             new_item == new_items[n]
         IN  IF new_item.has_x /\ new_item.x \notin existing_timestamps
             THEN Append(acc, new_item) ELSE acc

\* existing_data['data'] after the call
merge_component_data(data, new_component_data) ==
    IF ~new_component_data.has_data THEN data
    ELSE LET existing_timestamps == {data[i].x : i \in {j \in 1..Len(data) : data[j].has_x}}
             appended == AppendNewItems(data, existing_timestamps,
                                        new_component_data.data,
                                        Len(new_component_data.data))
         IN  SortByX(appended, Len(appended))

InitParser ==
    /\ file = <<>>
    /\ before = <<>>
    /\ op = NoOp
    /\ call = NoCall
    /\ batch \in {[loop |-> "CNNFearGreedParser", data |-> d, merges |-> 0,
                   previous |-> d, new_data |-> [has_data |-> FALSE, data |-> <<>>],
                   again |-> FALSE] : d \in StoredArrays}

Merged(new_component_data, again) ==
    [batch EXCEPT !.data = merge_component_data(@, new_component_data),
                  !.merges = @ + 1,
                  !.previous = batch.data,
                  !.new_data = new_component_data,
                  !.again = again]

MergeComponentData ==
    /\ batch.loop = "CNNFearGreedParser" /\ batch.merges < MaxMerges
    /\ \E new_component_data \in NewComponentData :
        batch' = Merged(new_component_data, FALSE)
    /\ UNCHANGED <<file, before, op, call>>

\* the same new data arrives once more (the next incremental fetch)
MergeSameDataAgain ==
    /\ batch.loop = "CNNFearGreedParser" /\ batch.merges > 0 /\ ~batch.again
    /\ batch' = Merged(batch.new_data, TRUE)
    /\ UNCHANGED <<file, before, op, call>>

NextParser == MergeComponentData \/ MergeSameDataAgain

SpecParser == InitParser /\ [][NextParser]_vars

NoRepeatedX(items) ==
    \A i, j \in 1..Len(items) :
        i # j /\ items[i].has_x /\ items[j].has_x => items[i].x # items[j].x

AscendingByX(items) ==
    \A i \in 1..(Len(items) - 1) : SortKey(items[i]) <= SortKey(items[i + 1])

\* C30: after any sequence of _merge_component_data calls on a component
\* whose stored array has no repeated x, the array is ascending by x, holds
\* no two items with the same x, still holds every previously stored item
\* unchanged, and merging the same new data a second time changes nothing
C30_MergeKeepsArrayWellFormed ==
    batch.loop = "CNNFearGreedParser" /\ batch.merges > 0 =>
        /\ AscendingByX(batch.data)
        /\ NoRepeatedX(batch.data)
        /\ \A i \in 1..Len(batch.previous) :
            \E j \in 1..Len(batch.data) : batch.data[j] = batch.previous[i]
        /\ batch.again => batch.data = batch.previous

\* the same when no x occurs twice in the 'data' list of any call
C30_ForNewDataWithoutRepeatedX ==
    /\ batch.loop = "CNNFearGreedParser" /\ batch.merges > 0
    /\ NoRepeatedX(batch.new_data.data)
    /\ NoRepeatedX(batch.previous)
    => C30_MergeKeepsArrayWellFormed

====
